---- MODULE Spec2Model ----
(***************************************************************************)
(* Reaction-diffusion engine for cardiac tissue: the FitzHughNagumo model, *)
(* the LuoRudyModel and TenTusscherModel (CardiacElectrophysiology), and   *)
(* the DTM grid.  One object is under test in a behaviour (chosen in       *)
(* Init, the state after construction); the instances share no state.      *)
(*                                                                         *)
(* A double is modelled as a fixed-point decimal: an integer number of     *)
(* units of 1/SCALE.  Products and quotients round toward zero.            *)
(***************************************************************************)
EXTENDS Integers, Sequences, FiniteSets, TLC

VARIABLES
    active,     \* which object the behaviour exercises: "FHN", "LR", "TT", "DTM"
    fhn,        \* the FitzHughNagumo instance (a record of its members)
    fresh,      \* a second FitzHughNagumo, constructed only to load a file
    files,      \* the file system: file name -> sequence of tokens, or NoFile
    savedFrom,  \* history: file name -> the model state saveState wrote it from
    ce,         \* the CardiacElectrophysiology instance: a LuoRudyModel or a TenTusscherModel
    maskSnap,   \* history: ce as it was when setMIRegion last accepted a mask
    sinceStimulus, \* history: per cell, the steps run since addStimulus last set it (-1: never set)
    dtm,        \* the DTM instance
    dtm2,       \* a second DTM, constructed only to load a file
    dtmFiles,   \* the files DTMs are saved to: file name -> sequence of tokens, or NoFile
    dtmSaved,   \* history: file name -> the DTM saveToFile wrote it from
    validator,  \* the ModelValidator instance
    succeeded,  \* history: the validateModel calls that returned a non-empty map
    files2,     \* the file system of a second run of the program
    sim,        \* the WASMFitzHughNagumo instance
    last,       \* the last call: its name, arguments, result and diagnostic
    nops        \* number of calls made so far

vars == <<active, fhn, fresh, files, savedFrom, ce, maskSnap, sinceStimulus, dtm, dtm2,
          dtmFiles, dtmSaved, validator, succeeded, files2, sim, last, nops>>

----------------------------------------------------------------------------
(* Bounds of the model *)

GridW == 3
GridH == 3
MaxOps == 3
NumSeeds == 2

----------------------------------------------------------------------------
(* Fixed-point arithmetic for double *)

SQ == 10 * 10
SCALE == SQ * SQ

Abs(x) == IF x < 0 THEN -x ELSE x
Sgn(x) == IF x < 0 THEN -1 ELSE 1


\* x * y on non-negative fixed-point numbers, without leaving 32 bits
MulPos(x, y) ==
    LET xh == x \div SQ
        xl == x % SQ
        yh == y \div SQ
        yl == y % SQ
    IN  xh * yh + ((xh * yl + xl * yh + ((xl * yl) \div SQ)) \div SQ)

Mul(x, y) == Sgn(x) * Sgn(y) * MulPos(Abs(x), Abs(y))

RECURSIVE LongDiv(_, _, _, _)
LongDiv(q, r, y, k) ==
    IF k = 0 THEN q
    ELSE LongDiv(q * 10 + ((r * 10) \div y), (r * 10) % y, y, k - 1)

\* the decimal literal n/d (d > 0) as a fixed-point number
Fx(n, d) == Sgn(n) * ((Abs(n) * SCALE) \div d)

\* x / y, y # 0
Div(x, y) == Sgn(x) * Sgn(y) * LongDiv(Abs(x) \div Abs(y), Abs(x) % Abs(y), Abs(y), 4)

\* e^n for integer n, as fixed-point numbers (libm exp on whole arguments)
ExpWhole(n) ==
    CASE n <= -10 -> 0
      [] n = -9 -> 1
      [] n = -8 -> 3
      [] n = -7 -> 9
      [] n = -6 -> 25
      [] n = -5 -> 67
      [] n = -4 -> 183
      [] n = -3 -> 498
      [] n = -2 -> 1353
      [] n = -1 -> 3679
      [] n = 0 -> 10000
      [] n = 1 -> 27183
      [] n = 2 -> 73891
      [] n = 3 -> 200855
      [] n = 4 -> 545982
      [] n = 5 -> 1484132
      [] n = 6 -> 4034288
      [] n = 7 -> 10966332
      [] n = 8 -> 29809580
      [] n = 9 -> 81030839
      [] n = 10 -> 220264658
      [] n = 11 -> 598741417
      [] n = 12 -> 1627547914

\* the terms f^k / k! of the exponential series from degree k up to 6;
\* pow is f^k and fact is k!
RECURSIVE ExpTerms(_, _, _, _)
ExpTerms(f, pow, k, fact) ==
    IF k > 6 THEN 0
    ELSE pow \div fact + ExpTerms(f, Mul(pow, f), k + 1, fact * (k + 1))

\* e^f for 0 <= f < 1: the Taylor polynomial of degree 6
ExpFrac(f) == SCALE + ExpTerms(f, f, 1, 1)

\* exp(x)
Exp(x) ==
    LET n == x \div SCALE
        f == x % SCALE
    IN  IF n <= -10 THEN 0 ELSE Mul(ExpWhole(n), ExpFrac(f))

Max(x, y) == IF x < y THEN y ELSE x
Min(x, y) == IF y < x THEN y ELSE x

----------------------------------------------------------------------------
(* Grids: std::vector<std::vector<T>> as a function row -> (column -> T) *)

Rows(h) == 0 .. (h - 1)
Cols(w) == 0 .. (w - 1)

\* vector::size()
Size(vec) == Cardinality(DOMAIN vec)

\* a vector holds its elements: the function is tabulated once, not
\* recomputed at each read
Stored(f) == f @@ <<>>

\* a vector of vectors holds its rows
Tabulated(grid) == Stored([y \in DOMAIN grid |-> Stored(grid[y])])

\* the grid of one member of a grid of records
Member(cells, f) ==
    Tabulated([y \in DOMAIN cells |-> [x \in DOMAIN cells[y] |-> cells[y][x][f]]])

\* a h x w grid filled with val
Grid(w, h, val) == Tabulated([y \in Rows(h) |-> [x \in Cols(w) |-> val]])

\* the grid with one cell replaced
Put(grid, x, y, val) == [grid EXCEPT ![y][x] = val]

\* vec[y][x]; outside the vector the read is undefined and yields junk
At(vec, x, y, junk) ==
    IF y \in DOMAIN vec /\ x \in DOMAIN vec[y] THEN vec[y][x] ELSE junk

\* the result of a call: the object afterwards, what the caller gets back
\* ("void", "true", "false" or "value" with val), whether the call took its
\* rejecting branch, and the line written to std::cerr ("" if none)
Result(m, ret, val, rejected, diag) ==
    [m |-> m, ret |-> ret, val |-> val, rejected |-> rejected, diag |-> diag]

----------------------------------------------------------------------------
(* FitzHughNagumo *)

DT == Fx(1, 100)

FHN_ctor(width, height, dt) ==
    [width_ |-> width, height_ |-> height, dt_ |-> dt, time_ |-> 0,
     a_ |-> Fx(1, 10), b_ |-> Fx(5, 10), c_ |-> Fx(1, 1), d_ |-> 0,
     du_ |-> Fx(1, 10), dv_ |-> 0,
     u_ |-> Grid(width, height, 0), v_ |-> Grid(width, height, 0),
     u_new_ |-> Grid(width, height, 0), v_new_ |-> Grid(width, height, 0),
     stimulus_ |-> Grid(width, height, 0)]

\* the k-th draw of uniform_real_distribution(-0.01, 0.01) from a generator
\* seeded with seed (std::random_device picks the seed)
Dis(seed, k) == ((seed * 37 + k * 61) % (2 * Fx(1, 100) + 1)) - Fx(1, 100)

\* a faulty initialize: the fields are redrawn but the time is not reset
FHN_initialize_keepTime(m, seed) ==
    Result([m EXCEPT
               !.u_ = Tabulated([y \in Rows(m.height_) |-> [x \in Cols(m.width_) |->
                          Dis(seed, 2 * (y * m.width_ + x))]]),
               !.v_ = Tabulated([y \in Rows(m.height_) |-> [x \in Cols(m.width_) |->
                          Dis(seed, 2 * (y * m.width_ + x) + 1)]]),
               !.stimulus_ = Grid(m.width_, m.height_, 0)],
           "void", 0, FALSE, "")

FHN_initialize(m, seed) ==
    Result([m EXCEPT
               !.u_ = Tabulated([y \in Rows(m.height_) |-> [x \in Cols(m.width_) |->
                          Dis(seed, 2 * (y * m.width_ + x))]]),
               !.v_ = Tabulated([y \in Rows(m.height_) |-> [x \in Cols(m.width_) |->
                          Dis(seed, 2 * (y * m.width_ + x) + 1)]]),
               !.stimulus_ = Grid(m.width_, m.height_, 0),
               !.time_ = 0],
           "void", 0, FALSE, "")

FHN_setParameters(m, a, b, c, d) ==
    Result([m EXCEPT !.a_ = a, !.b_ = b, !.c_ = c, !.d_ = d], "void", 0, FALSE, "")

FHN_setDiffusionCoefficients(m, du, dv) ==
    Result([m EXCEPT !.du_ = du, !.dv_ = dv], "void", 0, FALSE, "")

\* junk: what a read past the end of a row of u_init or v_init yields
FHN_setInitialConditions(m, u_init, v_init, junk) ==
    IF \/ Size(u_init) # m.height_
       \/ Size(v_init) # m.height_
       \/ (m.height_ > 0 /\ (Size(u_init[0]) # m.width_ \/ Size(v_init[0]) # m.width_))
    THEN Result(m, "void", 0, TRUE,
                "Error: Initial condition dimensions do not match grid size")
    ELSE Result([m EXCEPT
                    !.u_ = Tabulated([y \in Rows(m.height_) |-> [x \in Cols(m.width_) |->
                               At(u_init, x, y, junk)]]),
                    !.v_ = Tabulated([y \in Rows(m.height_) |-> [x \in Cols(m.width_) |->
                               At(v_init, x, y, junk)]])],
                "void", 0, FALSE, "")

FHN_isValidCoordinate(m, x, y) ==
    x >= 0 /\ x < m.width_ /\ y >= 0 /\ y < m.height_

\* a faulty addStimulus: coordinates outside the grid are clamped to the nearest
\* cell instead of being rejected
FHN_addStimulus_clamped(m, x, y, strength, duration) ==
    Result([m EXCEPT !.stimulus_ = Put(@, Max(0, Min(m.width_ - 1, x)),
                                          Max(0, Min(m.height_ - 1, y)), strength)],
           "void", 0, FALSE, "")

FHN_addStimulus(m, x, y, strength, duration) ==
    IF ~FHN_isValidCoordinate(m, x, y)
    THEN Result(m, "void", 0, TRUE, "Error: Invalid stimulus coordinates")
    ELSE Result([m EXCEPT !.stimulus_ = Put(@, x, y, strength)], "void", 0, FALSE, "")

\* a faulty stencil: the right-hand neighbour is left out
FHN_applyDiffusion_lopsided(m, grid, coeff, result) ==
    Tabulated([y \in Rows(m.height_) |-> [x \in Cols(m.width_) |->
        IF y >= 1 /\ y < m.height_ - 1 /\ x >= 1 /\ x < m.width_ - 1
        THEN Mul(coeff, grid[y - 1][x] + grid[y + 1][x] + grid[y][x - 1]
                        - 4 * grid[y][x])
        ELSE result[y][x]]])

\* a faulty stencil: the sign of the Laplacian is reversed
FHN_applyDiffusion_negated(m, grid, coeff, result) ==
    Tabulated([y \in Rows(m.height_) |-> [x \in Cols(m.width_) |->
        IF y >= 1 /\ y < m.height_ - 1 /\ x >= 1 /\ x < m.width_ - 1
        THEN Mul(coeff, 4 * grid[y][x] - grid[y - 1][x] - grid[y + 1][x]
                        - grid[y][x - 1] - grid[y][x + 1])
        ELSE result[y][x]]])

\* a faulty applyDiffusion: the outer ring of result is set to 0
FHN_applyDiffusion_clearingRing(m, grid, coeff, result) ==
    Tabulated([y \in Rows(m.height_) |-> [x \in Cols(m.width_) |->
        IF y >= 1 /\ y < m.height_ - 1 /\ x >= 1 /\ x < m.width_ - 1
        THEN Mul(coeff, grid[y - 1][x] + grid[y + 1][x] + grid[y][x - 1]
                        + grid[y][x + 1] - 4 * grid[y][x])
        ELSE 0]])

\* the 5-point stencil, written into result for the interior cells only
FHN_applyDiffusion(m, grid, coeff, result) ==
    Tabulated([y \in Rows(m.height_) |-> [x \in Cols(m.width_) |->
        IF y >= 1 /\ y < m.height_ - 1 /\ x >= 1 /\ x < m.width_ - 1
        THEN Mul(coeff, grid[y - 1][x] + grid[y + 1][x] + grid[y][x - 1]
                        + grid[y][x + 1] - 4 * grid[y][x])
        ELSE result[y][x]]])

\* a faulty reactionU: the stimulus term is left out
FHN_reactionU_noStimulus(u_val, v_val, stim_val) ==
    u_val - (Mul(Mul(u_val, u_val), u_val) \div 3) - v_val

FHN_reactionU(u_val, v_val, stim_val) ==
    u_val - (Mul(Mul(u_val, u_val), u_val) \div 3) - v_val + stim_val

\* a faulty reactionV: the division by c is left out
FHN_reactionV_undivided(m, u_val, v_val) ==
    u_val + m.a_ - Mul(m.b_, v_val)

FHN_reactionV(m, u_val, v_val) ==
    Div(u_val + m.a_ - Mul(m.b_, v_val), m.c_)

\* a faulty step: the new values are added to what u_new_ and v_new_ hold
\* instead of replacing it
FHN_step_accumulating(m) ==
    LET zero  == Grid(m.width_, m.height_, 0)
        du_dt == IF m.du_ > 0 THEN FHN_applyDiffusion(m, m.u_, m.du_, zero) ELSE zero
        dv_dt == IF m.dv_ > 0 THEN FHN_applyDiffusion(m, m.v_, m.dv_, zero) ELSE zero
        u_upd == Tabulated([y \in Rows(m.height_) |-> [x \in Cols(m.width_) |->
                    m.u_new_[y][x] + m.u_[y][x] + Mul(m.dt_, du_dt[y][x]
                        + FHN_reactionU(m.u_[y][x], m.v_[y][x], m.stimulus_[y][x]))]])
        v_upd == Tabulated([y \in Rows(m.height_) |-> [x \in Cols(m.width_) |->
                    m.v_new_[y][x] + m.v_[y][x] + Mul(m.dt_, dv_dt[y][x]
                        + FHN_reactionV(m, m.u_[y][x], m.v_[y][x]))]])
    IN  [m EXCEPT !.u_ = u_upd, !.v_ = v_upd,
                  !.u_new_ = m.u_, !.v_new_ = m.v_,
                  !.time_ = @ + m.dt_]

\* a faulty step: a coefficient that is not positive is replaced by 0.1
FHN_step_minimumDiffusion(m) ==
    LET zero  == Grid(m.width_, m.height_, 0)
        du_dt == FHN_applyDiffusion(m, m.u_, Max(m.du_, Fx(1, 10)), zero)
        dv_dt == FHN_applyDiffusion(m, m.v_, Max(m.dv_, Fx(1, 10)), zero)
        u_upd == Tabulated([y \in Rows(m.height_) |-> [x \in Cols(m.width_) |->
                    m.u_[y][x] + Mul(m.dt_, du_dt[y][x]
                        + FHN_reactionU(m.u_[y][x], m.v_[y][x], m.stimulus_[y][x]))]])
        v_upd == Tabulated([y \in Rows(m.height_) |-> [x \in Cols(m.width_) |->
                    m.v_[y][x] + Mul(m.dt_, dv_dt[y][x]
                        + FHN_reactionV(m, m.u_[y][x], m.v_[y][x]))]])
    IN  [m EXCEPT !.u_ = u_upd, !.v_ = v_upd,
                  !.u_new_ = m.u_, !.v_new_ = m.v_,
                  !.time_ = @ + m.dt_]

FHN_step(m) ==
    LET zero  == Grid(m.width_, m.height_, 0)
        du_dt == IF m.du_ > 0 THEN FHN_applyDiffusion(m, m.u_, m.du_, zero) ELSE zero
        dv_dt == IF m.dv_ > 0 THEN FHN_applyDiffusion(m, m.v_, m.dv_, zero) ELSE zero
        u_upd == Tabulated([y \in Rows(m.height_) |-> [x \in Cols(m.width_) |->
                    m.u_[y][x] + Mul(m.dt_, du_dt[y][x]
                        + FHN_reactionU(m.u_[y][x], m.v_[y][x], m.stimulus_[y][x]))]])
        v_upd == Tabulated([y \in Rows(m.height_) |-> [x \in Cols(m.width_) |->
                    m.v_[y][x] + Mul(m.dt_, dv_dt[y][x]
                        + FHN_reactionV(m, m.u_[y][x], m.v_[y][x]))]])
    IN  \* u_new_ and v_new_ are filled, then swapped with u_ and v_
        [m EXCEPT !.u_ = u_upd, !.v_ = v_upd,
                  !.u_new_ = m.u_, !.v_new_ = m.v_,
                  !.time_ = @ + m.dt_]

\* a faulty run loop: "i <= steps", one step too many
RECURSIVE FHN_runLoop_inclusive(_, _, _)
FHN_runLoop_inclusive(m, i, steps) ==
    IF i <= steps THEN FHN_runLoop_inclusive(FHN_step(m), i + 1, steps) ELSE m

RECURSIVE FHN_runLoop(_, _, _)
FHN_runLoop(m, i, steps) ==
    IF i < steps THEN FHN_runLoop(FHN_step(m), i + 1, steps) ELSE m

FHN_run(m, steps) == Result(FHN_runLoop(m, 0, steps), "void", 0, FALSE, "")

----------------------------------------------------------------------------
(* Text files: a file is a sequence of whitespace-separated tokens.  A token *)
(* is a decimal number (held exactly) or a word that is no number.           *)

NoFile == [exists |-> FALSE, toks |-> <<>>]
File(toks) == [exists |-> TRUE, toks |-> toks]
Num(v) == [num |-> TRUE, v |-> v]
Word == [num |-> FALSE, v |-> 0]

\* significant digits std::ostream writes for a double (its default precision)
Precision == 6

RECURSIVE NumDigits(_)
NumDigits(n) == IF n < 10 THEN 1 ELSE 1 + NumDigits(n \div 10)

RECURSIVE Pow10(_)
Pow10(k) == IF k = 0 THEN 1 ELSE 10 * Pow10(k - 1)

\* the double inf: above every number the model computes
Infinity == Fx(200000, 1)

\* operator<<(double): the value rounded to Precision significant digits;
\* an infinite value is written as the word inf
FormatDouble(x) ==
    LET n == NumDigits(Abs(x))
        p == Pow10(n - Precision)
    IN  IF Abs(x) >= Infinity THEN Word
        ELSE IF n <= Precision THEN Num(x)
        ELSE Num(Sgn(x) * (((Abs(x) + (p \div 2)) \div p) * p))

\* operator<<(int): every digit
FormatInt(i) == Num(i * SCALE)

\* the cells of a grid in row-major order, each written by operator<<
RECURSIVE FormatCells(_, _, _, _)
FormatCells(grid, w, h, k) ==
    IF k >= w * h THEN <<>>
    ELSE <<FormatDouble(grid[k \div w][k % w])>> \o FormatCells(grid, w, h, k + 1)

\* a faulty saveState: the stimulus grid is written after v
FHN_saveState_withStimulus(m, opened) ==
    IF ~opened
    THEN [file |-> NoFile, written |-> FALSE,
          res |-> Result(m, "false", 0, TRUE, "Error: Cannot create file")]
    ELSE [file |-> File(<<FormatInt(m.width_), FormatInt(m.height_), FormatDouble(m.time_),
                          FormatDouble(m.a_), FormatDouble(m.b_), FormatDouble(m.c_),
                          FormatDouble(m.d_), FormatDouble(m.du_), FormatDouble(m.dv_)>>
                        \o FormatCells(m.u_, m.width_, m.height_, 0)
                        \o FormatCells(m.v_, m.width_, m.height_, 0)
                        \o FormatCells(m.stimulus_, m.width_, m.height_, 0)),
          written |-> TRUE,
          res |-> Result(m, "true", 0, FALSE, "")]

\* opened: whether std::ofstream could create the file
FHN_saveState(m, opened) ==
    IF ~opened
    THEN [file |-> NoFile, written |-> FALSE,
          res |-> Result(m, "false", 0, TRUE, "Error: Cannot create file")]
    ELSE [file |-> File(<<FormatInt(m.width_), FormatInt(m.height_), FormatDouble(m.time_),
                          FormatDouble(m.a_), FormatDouble(m.b_), FormatDouble(m.c_),
                          FormatDouble(m.d_), FormatDouble(m.du_), FormatDouble(m.dv_)>>
                        \o FormatCells(m.u_, m.width_, m.height_, 0)
                        \o FormatCells(m.v_, m.width_, m.height_, 0)),
          written |-> TRUE,
          res |-> Result(m, "true", 0, FALSE, "")]

\* std::ifstream: the tokens, the read position and the fail bit
Stream(file) == [toks |-> file.toks, pos |-> 1, fail |-> FALSE]

\* operator>> into a variable holding old: the value afterwards and the stream.
\* A failed stream and the end of the file leave the variable alone; a token
\* that is no number stores 0 and sets the fail bit.
Extract(st, old) ==
    IF st.fail THEN [ok |-> FALSE, v |-> old, st |-> st]
    ELSE IF st.pos > Len(st.toks)
         THEN [ok |-> FALSE, v |-> old, st |-> [st EXCEPT !.fail = TRUE]]
    ELSE IF ~st.toks[st.pos].num
         THEN [ok |-> FALSE, v |-> 0, st |-> [st EXCEPT !.fail = TRUE]]
    ELSE [ok |-> TRUE, v |-> st.toks[st.pos].v, st |-> [st EXCEPT !.pos = @ + 1]]

\* operator>> into an int
ExtractInt(st, old) ==
    LET r == Extract(st, old * SCALE)
    IN  [ok |-> r.ok, v |-> r.v \div SCALE, st |-> r.st]

\* the loop "if (!(file >> grid[y][x])) return false" from cell k on
RECURSIVE ExtractCells(_, _, _, _, _)
ExtractCells(st, grid, w, h, k) ==
    IF k >= w * h THEN [ok |-> TRUE, grid |-> grid, st |-> st]
    ELSE LET y == k \div w
             x == k % w
             r == Extract(st, grid[y][x])
         IN  IF ~r.ok THEN [ok |-> FALSE, grid |-> Put(grid, x, y, r.v), st |-> r.st]
             ELSE ExtractCells(r.st, Put(grid, x, y, r.v), w, h, k + 1)

\* junk_w, junk_h: what the uninitialized locals file_width and file_height hold
FHN_loadState(m, file, junk_w, junk_h) ==
    IF ~file.exists
    THEN Result(m, "false", 0, TRUE, "Error: Cannot open file")
    ELSE
    LET s0 == Stream(file)
        rw == ExtractInt(s0, junk_w)
        rh == ExtractInt(rw.st, junk_h)
        rt == Extract(rh.st, m.time_)
        m1 == [m EXCEPT !.time_ = rt.v]
    IN  IF rw.v # m.width_ \/ rh.v # m.height_
        THEN Result(m1, "false", 0, TRUE,
                    "Error: File grid size does not match current grid size")
        ELSE
        LET ra  == Extract(rt.st, m.a_)
            rb  == Extract(ra.st, m.b_)
            rc  == Extract(rb.st, m.c_)
            rd  == Extract(rc.st, m.d_)
            rdu == Extract(rd.st, m.du_)
            rdv == Extract(rdu.st, m.dv_)
            m2  == [m1 EXCEPT !.a_ = ra.v, !.b_ = rb.v, !.c_ = rc.v, !.d_ = rd.v,
                              !.du_ = rdu.v, !.dv_ = rdv.v]
            ru  == ExtractCells(rdv.st, m.u_, m.width_, m.height_, 0)
            m3  == [m2 EXCEPT !.u_ = ru.grid]
        IN  IF ~ru.ok THEN Result(m3, "false", 0, TRUE, "Error reading u values")
            ELSE
            LET rv == ExtractCells(ru.st, m.v_, m.width_, m.height_, 0)
                m4 == [m3 EXCEPT !.v_ = rv.grid]
            IN  IF ~rv.ok THEN Result(m4, "false", 0, TRUE, "Error reading v values")
                ELSE Result(m4, "true", 0, FALSE, "")

----------------------------------------------------------------------------
(* CardiacElectrophysiology, LuoRudyModel and TenTusscherModel *)

\* std::sqrt on a non-negative fixed-point number (Newton's iteration on the units)
RECURSIVE Isqrt(_, _)
Isqrt(n, r) ==
    LET r2 == (r + n \div r) \div 2
    IN  IF r2 >= r THEN r ELSE Isqrt(n, r2)

Sqrt(x) == IF x = 0 THEN 0 ELSE Isqrt(x, x) * SQ

CE_ctor(width, height, dt) ==
    [width_ |-> width, height_ |-> height, dt_ |-> dt, time_ |-> 0,
     conductivity_ |-> Fx(1, 1), mi_region_ |-> Grid(width, height, FALSE)]

CE_setConductivity(m, conductivity) ==
    Result([m EXCEPT !.conductivity_ = conductivity], "void", 0, FALSE, "")

\* a setMIRegion that returns a status, as a bool-returning variant would
CE_setMIRegion_status(m, mi_region) ==
    IF Size(mi_region) # m.height_ \/ (m.height_ > 0 /\ Size(mi_region[0]) # m.width_)
    THEN Result(m, "false", 0, TRUE, "Error: MI region dimensions do not match grid size")
    ELSE Result([m EXCEPT !.mi_region_ = mi_region], "true", 0, FALSE, "")

CE_setMIRegion(m, mi_region) ==
    IF Size(mi_region) # m.height_ \/ (m.height_ > 0 /\ Size(mi_region[0]) # m.width_)
    THEN Result(m, "void", 0, TRUE, "Error: MI region dimensions do not match grid size")
    ELSE Result([m EXCEPT !.mi_region_ = mi_region], "void", 0, FALSE, "")

\* a faulty applyDiffusion: the stencil is applied to scar cells too
CE_applyDiffusion_unmasked(m, grid, result, junk) ==
    Tabulated([y \in Rows(m.height_) |-> [x \in Cols(m.width_) |->
        IF y >= 1 /\ y < m.height_ - 1 /\ x >= 1 /\ x < m.width_ - 1
        THEN Mul(m.conductivity_, grid[y - 1][x] + grid[y + 1][x] + grid[y][x - 1]
                                  + grid[y][x + 1] - 4 * grid[y][x])
        ELSE result[y][x]]])

\* the 5-point stencil on the interior cells, 0 where the mask is set;
\* junk: what mi_region_[y][x] yields when read past the end of a row
CE_applyDiffusion(m, grid, result, junk) ==
    Tabulated([y \in Rows(m.height_) |-> [x \in Cols(m.width_) |->
        IF y >= 1 /\ y < m.height_ - 1 /\ x >= 1 /\ x < m.width_ - 1
        THEN IF At(m.mi_region_, x, y, junk) THEN 0
             ELSE Mul(m.conductivity_, grid[y - 1][x] + grid[y + 1][x] + grid[y][x - 1]
                                       + grid[y][x + 1] - 4 * grid[y][x])
        ELSE result[y][x]]])

\* a faulty setCellType: a label that is none of the three selects the
\* parameters of "normal"
LuoRudy_setCellType_fallback(m, cell_type) ==
    Result(
      IF cell_type = "ischemic"
      THEN [m EXCEPT !.GNa_ = Fx(15, 1), !.Gsi_ = Fx(6, 100), !.GK_ = Fx(2, 10),
                     !.GK1_ = Fx(4, 10), !.Gb_ = Fx(3, 100), !.GCaL_ = Fx(12, 100000)]
      ELSE IF cell_type = "infarcted"
      THEN [m EXCEPT !.GNa_ = Fx(2, 1), !.Gsi_ = Fx(1, 100), !.GK_ = Fx(5, 100),
                     !.GK1_ = Fx(1, 10), !.Gb_ = Fx(1, 100), !.GCaL_ = Fx(2, 100000)]
      ELSE [m EXCEPT !.GNa_ = Fx(23, 1), !.Gsi_ = Fx(9, 100), !.GK_ = Fx(282, 1000),
                     !.GK1_ = Fx(6047, 10000), !.Gb_ = Fx(3921, 100000),
                     !.GCaL_ = Fx(175, 1000000)],
      "void", 0, FALSE, "")

LuoRudy_setCellType(m, cell_type) ==
    Result(
      IF cell_type = "normal"
      THEN [m EXCEPT !.GNa_ = Fx(23, 1), !.Gsi_ = Fx(9, 100), !.GK_ = Fx(282, 1000),
                     !.GK1_ = Fx(6047, 10000), !.Gb_ = Fx(3921, 100000),
                     !.GCaL_ = Fx(175, 1000000)]
      ELSE IF cell_type = "ischemic"
      THEN [m EXCEPT !.GNa_ = Fx(15, 1), !.Gsi_ = Fx(6, 100), !.GK_ = Fx(2, 10),
                     !.GK1_ = Fx(4, 10), !.Gb_ = Fx(3, 100), !.GCaL_ = Fx(12, 100000)]
      ELSE IF cell_type = "infarcted"
      THEN [m EXCEPT !.GNa_ = Fx(2, 1), !.Gsi_ = Fx(1, 100), !.GK_ = Fx(5, 100),
                     !.GK1_ = Fx(1, 10), !.Gb_ = Fx(1, 100), !.GCaL_ = Fx(2, 100000)]
      ELSE m,
      "void", 0, FALSE, "")

\* a faulty constructor: the calcium grid is left at the vector default 0.0
LuoRudy_ctor_zeroCalcium(width, height, dt) ==
    LuoRudy_setCellType(
        CE_ctor(width, height, dt) @@
        [class |-> "LuoRudyModel",
         V_ |-> Grid(width, height, Fx(-84, 1)),
         m_ |-> Grid(width, height, 0),
         h_ |-> Grid(width, height, Fx(1, 1)),
         j_ |-> Grid(width, height, Fx(1, 1)),
         xr_ |-> Grid(width, height, 0),
         xs_ |-> Grid(width, height, 0),
         d_ |-> Grid(width, height, 0),
         f_ |-> Grid(width, height, Fx(1, 1)),
         fca_ |-> Grid(width, height, Fx(1, 1)),
         Cai_ |-> Grid(width, height, 0),
         CaSR_ |-> Grid(width, height, Fx(2, 10)),
         GNa_ |-> 0, Gsi_ |-> 0, GK_ |-> 0, GK1_ |-> 0, Gb_ |-> 0, GCaL_ |-> 0],
        "normal").m

LuoRudy_ctor(width, height, dt) ==
    LuoRudy_setCellType(
        CE_ctor(width, height, dt) @@
        [class |-> "LuoRudyModel",
         V_ |-> Grid(width, height, Fx(-84, 1)),
         m_ |-> Grid(width, height, 0),
         h_ |-> Grid(width, height, Fx(1, 1)),
         j_ |-> Grid(width, height, Fx(1, 1)),
         xr_ |-> Grid(width, height, 0),
         xs_ |-> Grid(width, height, 0),
         d_ |-> Grid(width, height, 0),
         f_ |-> Grid(width, height, Fx(1, 1)),
         fca_ |-> Grid(width, height, Fx(1, 1)),
         Cai_ |-> Grid(width, height, Fx(2, 10000)),
         CaSR_ |-> Grid(width, height, Fx(2, 10)),
         GNa_ |-> 0, Gsi_ |-> 0, GK_ |-> 0, GK1_ |-> 0, Gb_ |-> 0, GCaL_ |-> 0],
        "normal").m

LuoRudy_calculateIonicCurrents(m, x, y) ==
    LET V   == m.V_[y][x]
        ENa == Fx(544, 10)
        ECa == Fx(130, 1)
        EK  == Fx(-77, 1)
    IN  [INa  |-> Mul(Mul(Mul(Mul(Mul(Mul(m.GNa_, m.m_[y][x]), m.m_[y][x]), m.m_[y][x]),
                              m.h_[y][x]), m.j_[y][x]), V - ENa),
         ICaL |-> Mul(Mul(Mul(Mul(m.GCaL_, m.d_[y][x]), m.f_[y][x]), m.fca_[y][x]), V - ECa),
         IK   |-> Mul(Mul(Mul(m.GK_, m.xr_[y][x]), m.xs_[y][x]), V - EK),
         IK1  |-> Div(Mul(m.GK1_, V - EK), SCALE + Exp(Mul(Fx(7, 100), V + Fx(80, 1)))),
         Ib   |-> Mul(m.Gb_, V + Fx(5987, 100)),
         ICaT |-> Mul(Mul(Fx(5, 10000), m.d_[y][x]), V - ECa)]

\* the gate rates shared by LuoRudyModel::step and TenTusscherModel::step
Alpha_m(V) == Div(Mul(Fx(32, 100), V + Fx(4713, 100)),
                  SCALE - Exp(Mul(-Fx(1, 10), V + Fx(4713, 100))))
Beta_m(V) == Mul(Fx(8, 100), Exp(Div(-V, Fx(11, 1))))
Alpha_xr(V) == Div(Mul(Fx(5, 10000), Exp(Mul(Fx(83, 1000), V + Fx(50, 1)))),
                   SCALE + Exp(Mul(Fx(57, 1000), V + Fx(50, 1))))
Beta_xr(V) == Div(Mul(Fx(13, 10000), Exp(Mul(-Fx(6, 100), V + Fx(20, 1)))),
                  SCALE + Exp(Mul(-Fx(4, 100), V + Fx(20, 1))))
Alpha_h(V) == Mul(Fx(135, 1000), Exp(Div(-(V + Fx(80, 1)), Fx(68, 10))))
Beta_h(V) == Mul(Fx(356, 100), Exp(Mul(Fx(79, 1000), V)))
             + 3100000 * Exp(Mul(Fx(35, 100), V))

\* gate += dt * (alpha * (1 - gate) - beta * gate)
GateUpdate(dt, gate, alpha, beta) ==
    gate + Mul(dt, Mul(alpha, SCALE - gate) - Mul(beta, gate))

\* Cai += dt * 0.001 * (-ICaL - 0.0001 * Cai), then the clamp to [0.0001, 0.01]
CalciumUpdate(dt, Cai, ICaL) ==
    LET c == Cai + Mul(Mul(dt, Fx(1, 1000)), -ICaL - Mul(Fx(1, 10000), Cai))
    IN  Max(Fx(1, 10000), Min(Fx(1, 100), c))

\* a faulty scar test: the mask is never consulted
IsScar_ignored(m, x, y, junk) == FALSE

\* a faulty scar test: the flag is read negated
IsScar_inverted(m, x, y, junk) == ~At(m.mi_region_, x, y, junk)

\* whether step treats cell (x, y) as scar
IsScar(m, x, y, junk) == At(m.mi_region_, x, y, junk)

\* the body of the loop of LuoRudyModel::step for a cell that is not scar:
\* the new potential and the gates and calcium updated in place
\* the potential, gates and calcium of a cell after the loop body, from the
\* currents and the potential read before the update
LuoRudy_update(m, x, y, dV_dt, currents, V_val) ==
    [V_   |-> m.V_[y][x]
              + Mul(-(currents.INa + currents.ICaL + currents.IK + currents.IK1
                      + currents.Ib + currents.ICaT + dV_dt[y][x]), m.dt_),
     m_   |-> GateUpdate(m.dt_, m.m_[y][x], Alpha_m(V_val), Beta_m(V_val)),
     h_   |-> GateUpdate(m.dt_, m.h_[y][x], Alpha_h(V_val), Beta_h(V_val)),
     xr_  |-> GateUpdate(m.dt_, m.xr_[y][x], Alpha_xr(V_val), Beta_xr(V_val)),
     Cai_ |-> CalciumUpdate(m.dt_, m.Cai_[y][x], currents.ICaL)]

\* auto currents = calculateIonicCurrents(x, y); double V_val = V_[y][x];
LuoRudy_cell(m, x, y, dV_dt) ==
    LuoRudy_update(m, x, y, dV_dt, LuoRudy_calculateIonicCurrents(m, x, y), m.V_[y][x])

\* V_ = V_new, with the gates and calcium as the loop left them; time_ += dt_
LuoRudy_commit(m, cells) ==
    [m EXCEPT !.V_   = Member(cells, "V_"),
              !.m_   = Member(cells, "m_"),
              !.h_   = Member(cells, "h_"),
              !.xr_  = Member(cells, "xr_"),
              !.Cai_ = Member(cells, "Cai_"),
              !.time_ = @ + m.dt_]

\* the loop over the cells, given the diffusion term; a scar cell keeps its
\* potential (V_new = V_) and the loop continues
LuoRudy_cells(m, dV_dt, junk) ==
    Tabulated([y \in Rows(m.height_) |-> [x \in Cols(m.width_) |->
        IF IsScar(m, x, y, junk)
        THEN [V_ |-> m.V_[y][x], m_ |-> m.m_[y][x], h_ |-> m.h_[y][x],
              xr_ |-> m.xr_[y][x], Cai_ |-> m.Cai_[y][x]]
        ELSE LuoRudy_cell(m, x, y, dV_dt)]])

LuoRudy_step(m, junk) ==
    LuoRudy_commit(m,
        LuoRudy_cells(m, CE_applyDiffusion(m, m.V_, Grid(m.width_, m.height_, 0), junk),
                      junk))

TenTusscher_setVariant(m, variant) ==
    Result(
      IF variant = "epi"
      THEN [m EXCEPT !.GNa_ = Fx(75, 1), !.GCaL_ = Fx(175, 1000000), !.GKr_ = Fx(46, 1000),
                     !.GKs_ = Fx(34, 10000), !.GK1_ = Fx(1908, 10000), !.Gto_ = Fx(294, 1000),
                     !.GNaCa_ = Fx(1000, 1), !.GNaK_ = Fx(1362, 1000)]
      ELSE IF variant = "endo"
      THEN [m EXCEPT !.GNa_ = Fx(75, 1), !.GCaL_ = Fx(175, 1000000), !.GKr_ = Fx(23, 1000),
                     !.GKs_ = Fx(34, 10000), !.GK1_ = Fx(1908, 10000), !.Gto_ = Fx(73, 1000),
                     !.GNaCa_ = Fx(1000, 1), !.GNaK_ = Fx(1362, 1000)]
      ELSE IF variant = "mid"
      THEN [m EXCEPT !.GNa_ = Fx(75, 1), !.GCaL_ = Fx(175, 1000000), !.GKr_ = Fx(23, 1000),
                     !.GKs_ = Fx(34, 10000), !.GK1_ = Fx(1908, 10000), !.Gto_ = Fx(294, 1000),
                     !.GNaCa_ = Fx(1000, 1), !.GNaK_ = Fx(1362, 1000)]
      ELSE m,
      "void", 0, FALSE, "")

TenTusscher_ctor(width, height, dt) ==
    TenTusscher_setVariant(
        CE_ctor(width, height, dt) @@
        [class |-> "TenTusscherModel",
         V_ |-> Grid(width, height, Fx(-862, 10)),
         m_ |-> Grid(width, height, 0),
         h_ |-> Grid(width, height, Fx(75, 100)),
         j_ |-> Grid(width, height, Fx(75, 100)),
         oa_ |-> Grid(width, height, 0),
         oi_ |-> Grid(width, height, Fx(1, 1)),
         d_ |-> Grid(width, height, 0),
         f_ |-> Grid(width, height, Fx(1, 1)),
         fca_ |-> Grid(width, height, Fx(1, 1)),
         u_ |-> Grid(width, height, 0),
         v_ |-> Grid(width, height, Fx(1, 1)),
         w_ |-> Grid(width, height, Fx(1, 1)),
         Cai_ |-> Grid(width, height, Fx(2, 10000)),
         CaSR_ |-> Grid(width, height, Fx(2, 10)),
         CaSS_ |-> Grid(width, height, Fx(2, 10000)),
         Nai_ |-> Grid(width, height, Fx(116, 10)),
         Ki_ |-> Grid(width, height, Fx(1383, 10)),
         GNa_ |-> 0, GCaL_ |-> 0, GKr_ |-> 0, GKs_ |-> 0, GK1_ |-> 0, Gto_ |-> 0,
         GNaCa_ |-> 0, GNaK_ |-> 0],
        "epi").m

TenTusscher_calculateIonicCurrents(m, x, y) ==
    LET V   == m.V_[y][x]
        Cai == m.Cai_[y][x]
        Nai == m.Nai_[y][x]
        Ki  == m.Ki_[y][x]
        ENa == Fx(544, 10)
        ECa == Fx(130, 1)
        EKr == Fx(-77, 1)
        EKs == Fx(-77, 1)
        sq  == Sqrt(Div(Ki, Fx(54, 10)))
        ep  == Exp(Mul(Fx(3743, 100000), V))
        en  == Exp(Mul(-Fx(3743, 100000), V))
    IN  [INa   |-> Mul(Mul(Mul(Mul(Mul(Mul(m.GNa_, m.m_[y][x]), m.m_[y][x]), m.m_[y][x]),
                               m.h_[y][x]), m.j_[y][x]), V - ENa),
         ICaL  |-> Mul(Mul(Mul(Mul(m.GCaL_, m.d_[y][x]), m.f_[y][x]), m.fca_[y][x]), V - ECa),
         IKr   |-> Mul(Mul(Mul(m.GKr_, sq), m.u_[y][x]), V - EKr),
         IKs   |-> Mul(Mul(m.GKs_, m.v_[y][x]), V - EKs),
         IK1   |-> Div(Mul(Mul(m.GK1_, sq), V - EKr),
                       SCALE + Exp(Mul(Fx(7, 100), V + Fx(80, 1)))),
         Ito   |-> Mul(Mul(Mul(m.Gto_, m.oa_[y][x]), m.oi_[y][x]), V - EKr),
         INaCa |-> Div(Mul(m.GNaCa_, Mul(Mul(Mul(Mul(ep, Nai), Nai), Nai), Cai)
                                     - Mul(en, Fx(14, 10))),
                       SCALE + Mul(Fx(1, 10), en)),
         INaK  |-> Div(Mul(Div(Mul(m.GNaK_, Ki), Ki + Fx(1, 1)), Nai), Nai + Fx(40, 1))]

\* the body of the loop of TenTusscherModel::step for a cell that is not scar
\* the potential, gates and calcium of a cell after the loop body
TenTusscher_update(m, x, y, dV_dt, currents, V_val) ==
    [V_   |-> m.V_[y][x]
              + Mul(-(currents.INa + currents.ICaL + currents.IKr + currents.IKs
                      + currents.IK1 + currents.Ito + currents.INaCa + currents.INaK
                      + dV_dt[y][x]), m.dt_),
     m_   |-> GateUpdate(m.dt_, m.m_[y][x], Alpha_m(V_val), Beta_m(V_val)),
     u_   |-> GateUpdate(m.dt_, m.u_[y][x], Alpha_xr(V_val), Beta_xr(V_val)),
     Cai_ |-> CalciumUpdate(m.dt_, m.Cai_[y][x], currents.ICaL)]

TenTusscher_cell(m, x, y, dV_dt) ==
    TenTusscher_update(m, x, y, dV_dt, TenTusscher_calculateIonicCurrents(m, x, y),
                       m.V_[y][x])

\* V_ = V_new; time_ += dt_
TenTusscher_commit(m, cells) ==
    [m EXCEPT !.V_   = Member(cells, "V_"),
              !.m_   = Member(cells, "m_"),
              !.u_   = Member(cells, "u_"),
              !.Cai_ = Member(cells, "Cai_"),
              !.time_ = @ + m.dt_]

\* the loop over the cells; a scar cell keeps its potential
TenTusscher_cells(m, dV_dt, junk) ==
    Tabulated([y \in Rows(m.height_) |-> [x \in Cols(m.width_) |->
        IF IsScar(m, x, y, junk)
        THEN [V_ |-> m.V_[y][x], m_ |-> m.m_[y][x], u_ |-> m.u_[y][x],
              Cai_ |-> m.Cai_[y][x]]
        ELSE TenTusscher_cell(m, x, y, dV_dt)]])

TenTusscher_step(m, junk) ==
    TenTusscher_commit(m,
        TenTusscher_cells(m, CE_applyDiffusion(m, m.V_, Grid(m.width_, m.height_, 0), junk),
                          junk))

\* the virtual call step()
CE_step(m, junk) ==
    IF m.class = "LuoRudyModel" THEN LuoRudy_step(m, junk) ELSE TenTusscher_step(m, junk)

\* a faulty run loop: it leaves after the first step
RECURSIVE CE_runLoop_earlyExit(_, _, _, _)
CE_runLoop_earlyExit(m, i, steps, junk) ==
    IF i < steps /\ i < 1 THEN CE_runLoop_earlyExit(CE_step(m, junk), i + 1, steps, junk) ELSE m

RECURSIVE CE_runLoop(_, _, _, _)
CE_runLoop(m, i, steps, junk) ==
    IF i < steps THEN CE_runLoop(CE_step(m, junk), i + 1, steps, junk) ELSE m

CE_run(m, steps, junk) == Result(CE_runLoop(m, 0, steps, junk), "void", 0, FALSE, "")

----------------------------------------------------------------------------
(* DTM *)

DTM_ctor(width, height, cell_size) ==
    [width_ |-> width, height_ |-> height, cell_size_ |-> cell_size,
     elevation_data_ |-> Grid(width, height, 0)]

DTM_isValidCoordinate(m, x, y) ==
    x >= 0 /\ x < m.width_ /\ y >= 0 /\ y < m.height_

DTM_getElevation(m, x, y) ==
    IF ~DTM_isValidCoordinate(m, x, y)
    THEN Result(m, "value", 0, TRUE, "Error: Invalid coordinates")
    ELSE Result(m, "value", m.elevation_data_[y][x], FALSE, "")

\* a faulty setElevation: the cell is indexed [x][y]
DTM_setElevation_transposed(m, x, y, elevation) ==
    IF ~DTM_isValidCoordinate(m, x, y)
    THEN Result(m, "void", 0, TRUE, "Error: Invalid coordinates")
    ELSE Result([m EXCEPT !.elevation_data_ = Put(@, y, x, elevation)], "void", 0, FALSE, "")

DTM_setElevation(m, x, y, elevation) ==
    IF ~DTM_isValidCoordinate(m, x, y)
    THEN Result(m, "void", 0, TRUE, "Error: Invalid coordinates")
    ELSE Result([m EXCEPT !.elevation_data_ = Put(@, x, y, elevation)], "void", 0, FALSE, "")

\* std::make_pair(width_, height_)
DTM_getDimensions(m) == <<m.width_, m.height_>>

DTM_getCellSize(m) == m.cell_size_

\* opened: whether std::ofstream could create the file
DTM_saveToFile(m, opened) ==
    IF ~opened
    THEN [file |-> NoFile, written |-> FALSE,
          res |-> Result(m, "false", 0, TRUE, "Error: Cannot create file")]
    ELSE [file |-> File(<<FormatInt(m.width_), FormatInt(m.height_),
                          FormatDouble(m.cell_size_)>>
                        \o FormatCells(m.elevation_data_, m.width_, m.height_, 0)),
          written |-> TRUE,
          res |-> Result(m, "true", 0, FALSE, "")]

\* elevation_data_.resize(h) and row.resize(w) on every row: the entries
\* that stay are kept, the new ones are 0
DTM_resized(grid, w, h) ==
    Tabulated([y \in Rows(h) |-> [x \in Cols(w) |-> At(grid, x, y, 0)]])

DTM_loadFromFile(m, file) ==
    IF ~file.exists
    THEN Result(m, "false", 0, TRUE, "Error: Cannot open file")
    ELSE
    LET rw == ExtractInt(Stream(file), m.width_)
        rh == ExtractInt(rw.st, m.height_)
        rc == Extract(rh.st, m.cell_size_)
        m1 == [m EXCEPT !.width_ = rw.v, !.height_ = rh.v, !.cell_size_ = rc.v]
    IN  IF rw.v < 0 \/ rh.v < 0
        THEN \* resize throws std::length_error, which the handler catches
             Result(m1, "false", 0, TRUE, "Error loading DTM file")
        ELSE
        LET re == ExtractCells(rc.st, DTM_resized(m.elevation_data_, rw.v, rh.v),
                               rw.v, rh.v, 0)
            m2 == [m1 EXCEPT !.elevation_data_ = re.grid]
        IN  IF ~re.ok THEN Result(m2, "false", 0, TRUE, "Error: Failed to read elevation data")
            ELSE Result(m2, "true", 0, FALSE, "")

----------------------------------------------------------------------------
(* The arguments the calls are made with *)

CentreX == GridW \div 2
CentreY == GridH \div 2

\* a vector of h rows, row y holding w entries, except row GridH - 1 which holds last_w
Vec(w, h, last_w, val) ==
    Tabulated([y \in Rows(h) |-> [x \in Cols(IF y = GridH - 1 THEN last_w ELSE w) |-> val]])

ParameterInputs ==
    {<<Fx(7, 10), Fx(8, 10), Fx(3, 1), 0>>, <<Fx(1, 10), Fx(5, 10), Fx(1, 1), Fx(1, 1)>>}

\* du and dv: one of them zero, both positive, one negative, both zero
DiffusionInputs ==
    {<<0, Fx(1, 10)>>, <<Fx(2, 10), Fx(2, 10)>>, <<Fx(-1, 10), 0>>, <<0, 0>>}

\* u_init and v_init: matching the grid, one row too many, one column too many,
\* a last row that is too long, a last row that is too short
InitialConditionInputs ==
    {[u |-> Put(Grid(GridW, GridH, 0), CentreX, CentreY, Fx(1, 1)),
      v |-> Put(Grid(GridW, GridH, 0), 0, 0, Fx(123, 1) + Fx(4567, 10000))],
     [u |-> Grid(GridW, GridH + 1, Fx(1, 1)), v |-> Grid(GridW, GridH + 1, 0)],
     [u |-> Grid(GridW + 1, GridH, Fx(1, 1)), v |-> Grid(GridW + 1, GridH, 0)],
     [u |-> Vec(GridW, GridH, GridW + 1, Fx(5, 10)), v |-> Grid(GridW, GridH, 0)],
     [u |-> Vec(GridW, GridH, GridW - 1, Fx(5, 10)), v |-> Grid(GridW, GridH, 0)]}

\* what a read of a double past the end of a vector may yield
JunkDoubles == {0, Fx(-5, 1)}

\* the centre cell and one cell beyond each edge
CoordinateInputs ==
    {<<CentreX, CentreY>>, <<-1, CentreY>>, <<GridW, CentreY>>,
     <<CentreX, -1>>, <<CentreX, GridH>>}

StrengthInputs == {Fx(1, 1)}
DurationInputs == {Fx(10, 1)}
StepsInputs == {-1, 0, 2}
ElevationInputs == {Fx(100, 1), Fx(123, 1) + Fx(4567, 10000)}

\* the coordinates setElevation and getElevation are called with: those of
\* addStimulus and two corners of the grid
DTMCoordinateInputs == CoordinateInputs \cup {<<0, 0>>, <<GridW - 1, 0>>}

DTMFileNames == {"test_dtm.dat"}

\* the width and height the loading DTM is constructed with
DTMSizeInputs == {<<GridW, GridH>>, <<GridW + 1, GridH - 1>>}

FileNames == {"state.dat", "dims.dat", "short.dat", "empty.dat"}

\* the files that exist before the first call: one of another grid size, one that
\* ends in the u block with a word that is no number, and an empty one
InitialFiles ==
    [f \in FileNames |->
        CASE f = "dims.dat" -> File(<<FormatInt(GridW + 1), FormatInt(GridH), Num(Fx(5, 1))>>)
          [] f = "short.dat" ->
                File(<<FormatInt(GridW), FormatInt(GridH), Num(Fx(25, 10)),
                       Num(Fx(7, 10)), Num(Fx(8, 10)), Num(Fx(3, 1)), Num(0),
                       Num(Fx(3, 10)), Num(0), Num(Fx(9, 1)), Word>>)
          [] f = "empty.dat" -> File(<<>>)
          [] OTHER -> NoFile]

\* tissue masks: the centre cell and a corner flagged, one row too many, one
\* column too many, a last row that is too short
MaskInputs ==
    {Put(Put(Grid(GridW, GridH, FALSE), CentreX, CentreY, TRUE), 0, 0, TRUE),
     Grid(GridW, GridH + 1, TRUE),
     Grid(GridW + 1, GridH, TRUE),
     Put(Vec(GridW, GridH, GridW - 1, FALSE), 0, 0, TRUE)}

\* the labels setCellType and setVariant are called with: the three each of
\* them compares with, and two others
CellTypeLabels == <<"normal", "ischemic", "infarcted", "healthy", "Normal">>
VariantLabels == <<"epi", "endo", "mid", "M", "">>
CellTypeInputs == {CellTypeLabels[i] : i \in DOMAIN CellTypeLabels}
VariantInputs == {VariantLabels[i] : i \in DOMAIN VariantLabels}

\* the position of a label in the list of labels
LabelNumber(labels, label) == CHOOSE i \in DOMAIN labels : labels[i] = label
ConductivityInputs == {Fx(5, 10)}

----------------------------------------------------------------------------
(* The state after construction, and one action per public operation *)

\* the sizes of the rows of a vector of vectors
RowSizes(vec) == {Size(vec[y]) : y \in DOMAIN vec}
MinOf(S) == CHOOSE a \in S : \A b \in S : a <= b
MaxOf(S) == CHOOSE a \in S : \A b \in S : b <= a

\* the record of a call.  x, y, n are its arguments; for a call given a
\* vector of vectors they are its smallest row size, its number of rows and its
\* largest row size, and for a call given a label n is the number of the label.
Call(op, x, y, n, r) ==
    [op |-> op, x |-> x, y |-> y, n |-> n,
     ret |-> r.ret, val |-> r.val, rejected |-> r.rejected, diag |-> r.diag]

----------------------------------------------------------------------------
(* ValidationMetrics and ModelValidator *)

\* a double that may be quiet_NaN
NaN == [nan |-> TRUE, v |-> 0]
Real(v) == [nan |-> FALSE, v |-> v]

\* std::accumulate over the first k entries of a vector
RECURSIVE Accumulate(_, _)
Accumulate(s, k) == IF k = 0 THEN 0 ELSE s[k] + Accumulate(s, k - 1)

\* the sum a loop over i builds from its terms
Total(terms) == Accumulate(terms, Len(terms))

Mean(s) == Div(Total(s), Fx(Len(s), 1))

ValidationMetrics_calculateRMSE(predicted, observed) ==
    IF Len(predicted) # Len(observed) \/ Len(predicted) = 0 THEN NaN
    ELSE LET sum_squared_error ==
                 Total([i \in DOMAIN predicted |->
                     Mul(predicted[i] - observed[i], predicted[i] - observed[i])])
         IN  Real(Sqrt(Div(sum_squared_error, Fx(Len(predicted), 1))))

ValidationMetrics_calculateMAE(predicted, observed) ==
    IF Len(predicted) # Len(observed) \/ Len(predicted) = 0 THEN NaN
    ELSE Real(Div(Total([i \in DOMAIN predicted |-> Abs(predicted[i] - observed[i])]),
                  Fx(Len(predicted), 1)))

ValidationMetrics_calculateCorrelation(predicted, observed) ==
    IF Len(predicted) # Len(observed) \/ Len(predicted) < 2 THEN NaN
    ELSE LET mean_pred   == Mean(predicted)
             mean_obs    == Mean(observed)
             numerator   == Total([i \in DOMAIN predicted |->
                                Mul(predicted[i] - mean_pred, observed[i] - mean_obs)])
             sum_sq_pred == Total([i \in DOMAIN predicted |->
                                Mul(predicted[i] - mean_pred, predicted[i] - mean_pred)])
             sum_sq_obs  == Total([i \in DOMAIN predicted |->
                                Mul(observed[i] - mean_obs, observed[i] - mean_obs)])
             denominator == Sqrt(Mul(sum_sq_pred, sum_sq_obs))
         IN  Real(IF denominator = 0 THEN 0 ELSE Div(numerator, denominator))

ValidationMetrics_calculateRSquared(predicted, observed) ==
    IF Len(predicted) # Len(observed) \/ Len(predicted) = 0 THEN NaN
    ELSE LET mean_obs == Mean(observed)
             ss_res   == Total([i \in DOMAIN predicted |->
                             Mul(observed[i] - predicted[i], observed[i] - predicted[i])])
             ss_tot   == Total([i \in DOMAIN predicted |->
                             Mul(observed[i] - mean_obs, observed[i] - mean_obs)])
         IN  Real(IF ss_tot = 0 THEN Fx(1, 1) ELSE Fx(1, 1) - Div(ss_res, ss_tot))

\* a std::map<std::string, double> without entries
EmptyMap == <<>>

ValidationMetrics_calculateNormalizedMetrics(predicted, observed) ==
    IF Len(predicted) = 0 \/ Len(observed) = 0 \/ Len(predicted) # Len(observed)
    THEN EmptyMap
    ELSE LET rmse      == ValidationMetrics_calculateRMSE(predicted, observed).v
             mae       == ValidationMetrics_calculateMAE(predicted, observed).v
             range_obs == MaxOf({observed[i] : i \in DOMAIN observed})
                          - MinOf({observed[i] : i \in DOMAIN observed})
             valid     == {i \in DOMAIN predicted : observed[i] # 0}
             mape_sum  == Total([i \in DOMAIN predicted |->
                              IF observed[i] # 0
                              THEN Abs(Div(predicted[i] - observed[i], observed[i]))
                              ELSE 0])
         IN  [rmse |-> Real(rmse),
              mae |-> Real(mae),
              correlation |-> ValidationMetrics_calculateCorrelation(predicted, observed),
              r_squared |-> ValidationMetrics_calculateRSquared(predicted, observed),
              normalized_rmse |-> Real(IF range_obs > 0 THEN Div(rmse, range_obs) ELSE 0),
              normalized_mae |-> Real(IF range_obs > 0 THEN Div(mae, range_obs) ELSE 0),
              mean_absolute_percentage_error |->
                  Real(IF valid # {}
                       THEN Mul(Div(mape_sum, Fx(Cardinality(valid), 1)), Fx(100, 1))
                       ELSE 0)]

ModelValidator_ctor == [validation_datasets_ |-> <<>>, validation_results_ |-> <<>>]

\* validation_datasets_[name] = data
ModelValidator_addValidationData(m, name, data) ==
    Result([m EXCEPT !.validation_datasets_ = (name :> data) @@ @], "void", 0, FALSE, "")

\* the rows of a vector of vectors one after the other, from row i on
RECURSIVE Flatten(_, _)
Flatten(rows, i) == IF i > Len(rows) THEN <<>> ELSE rows[i] \o Flatten(rows, i + 1)

\* observed_data[i][j] for every entry j of row i of the predictions; a row
\* of the dataset shorter than the row of the predictions is read past its
\* end, which yields junk
ObservedAlong(model_predictions, observed_data, junk) ==
    [i \in DOMAIN model_predictions |->
        [j \in DOMAIN model_predictions[i] |->
            IF j \in DOMAIN observed_data[i] THEN observed_data[i][j] ELSE junk]]

ModelValidator_validateModel(m, model_predictions, dataset_name, junk) ==
    IF dataset_name \notin DOMAIN m.validation_datasets_
    THEN Result(m, "value", EmptyMap, TRUE, "Error: Validation dataset not found")
    ELSE LET observed_data == m.validation_datasets_[dataset_name]
         IN  IF Len(model_predictions) # Len(observed_data) \/ Len(model_predictions) = 0
             THEN Result(m, "value", EmptyMap, TRUE,
                         "Error: Model predictions and observed data dimensions do not match")
             ELSE LET results == ValidationMetrics_calculateNormalizedMetrics(
                                     Flatten(model_predictions, 1),
                                     Flatten(ObservedAlong(model_predictions, observed_data,
                                                           junk), 1))
                  IN  Result([m EXCEPT !.validation_results_ = Append(@, results)],
                             "value", results, FALSE, "")

\* the report: the number after "Number of validation runs: " and one
\* section for each stored result; false when the file cannot be created
ModelValidator_generateValidationReport(m, opened) ==
    IF ~opened
    THEN Result(m, "false", 0, TRUE, "Error: Cannot create validation report file")
    ELSE Result(m, "true",
                [runs |-> Len(m.validation_results_), sections |-> m.validation_results_],
                FALSE, "")

----------------------------------------------------------------------------
(* WASMFitzHughNagumo: the wrapper of a FitzHughNagumo that keeps a training *)
(* history                                                                   *)

\* the values a loop over the cells of the model computes, in row-major order
PerCell(m, F(_, _)) ==
    [k \in 1 .. (m.width_ * m.height_) |-> F((k - 1) % m.width_, (k - 1) \div m.width_)]

\* the variance of the membrane potential over the 3 x 3 block around (x, y)
LocalVariance(membraneData, x, y) ==
    LET block == {<<x + dx, y + dy>> : dx \in -1 .. 1, dy \in -1 .. 1}
        cells == [k \in 1 .. 9 |-> membraneData[y + ((k - 1) \div 3) - 1][x + ((k - 1) % 3) - 1]]
        mean  == Div(Total(cells), Fx(Cardinality(block), 1))
    IN  Div(Total([k \in 1 .. 9 |-> Mul(cells[k] - mean, cells[k] - mean)]),
            Fx(Cardinality(block), 1))

WASM_cellAccuracy(m, x, y) ==
    LET membrane == m.u_[y][x]
        recovery == m.v_[y][x]
        a1 == IF membrane < Fx(-100, 1) \/ membrane > Fx(50, 1) THEN Fx(5, 10) ELSE Fx(1, 1)
        a2 == IF recovery < 0 \/ recovery > Fx(1, 1) THEN Mul(a1, Fx(7, 10)) ELSE a1
    IN  IF y > 0 /\ y < m.height_ - 1 /\ x > 0 /\ x < m.width_ - 1
        THEN LET localVariance == LocalVariance(m.u_, x, y)
             IN  IF localVariance > Fx(1, 100) /\ localVariance < Fx(1, 1)
                 THEN Mul(a2, Fx(11, 10))
                 ELSE IF localVariance > Fx(2, 1) THEN Mul(a2, Fx(8, 10)) ELSE a2
        ELSE a2

WASM_calculateEpochAccuracy(m) ==
    LET validCells == m.width_ * m.height_
        cell(x, y) == WASM_cellAccuracy(m, x, y)
    IN  IF validCells > 0
        THEN Mul(Div(Total(PerCell(m, cell)), Fx(validCells, 1)), Fx(100, 1))
        ELSE 0

WASM_calculateTrainingLoss(m) ==
    LET count == m.width_ * m.height_
        cell(x, y) == Mul(m.u_[y][x] - Fx(-80, 1), m.u_[y][x] - Fx(-80, 1))
    IN  IF count > 0 THEN Div(Total(PerCell(m, cell)), Fx(count, 1)) ELSE 0

WASM_calculateValidationLoss(m) ==
    LET count == m.width_ * m.height_
        cell(x, y) == IF m.u_[y][x] < Fx(-100, 1) \/ m.u_[y][x] > Fx(50, 1) THEN Fx(1, 1)
                      ELSE IF m.u_[y][x] < Fx(-90, 1) \/ m.u_[y][x] > Fx(40, 1) THEN Fx(1, 10)
                      ELSE 0
    IN  IF count > 0 THEN Div(Total(PerCell(m, cell)), Fx(count, 1)) ELSE 0

\* distance from (width / 2.0, height / 2.0) < min(width, height) * 0.2, with
\* both sides squared and multiplied by 100
WASM_generateGroundTruth(m, x, y) ==
    25 * ((2 * x - m.width_) * (2 * x - m.width_) + (2 * y - m.height_) * (2 * y - m.height_))
        < 4 * Min(m.width_, m.height_) * Min(m.width_, m.height_)

WASM_classifyTissue(m, x, y) == m.u_[y][x] < Fx(-60, 1)

\* (double) n / d when d > 0, else 0.0
Ratio(n, d) == IF d > 0 THEN Div(Fx(n, 1), Fx(d, 1)) ELSE 0

WASM_calculateClassificationMetrics(m) ==
    LET cells == Cols(m.width_) \X Rows(m.height_)
        actual(c) == WASM_generateGroundTruth(m, c[1], c[2])
        predicted(c) == WASM_classifyTissue(m, c[1], c[2])
        tp == Cardinality({c \in cells : actual(c) /\ predicted(c)})
        fp == Cardinality({c \in cells : ~actual(c) /\ predicted(c)})
        tn == Cardinality({c \in cells : ~actual(c) /\ ~predicted(c)})
        fn == Cardinality({c \in cells : actual(c) /\ ~predicted(c)})
        precision == Ratio(tp, tp + fp)
        recall    == Ratio(tp, tp + fn)
    IN  [accuracy |-> Ratio(tp + tn, tp + fp + tn + fn),
         precision |-> precision, recall |-> recall,
         f1Score |-> IF precision + recall > 0
                     THEN Div(Mul(Fx(2, 1), Mul(precision, recall)), precision + recall)
                     ELSE 0,
         specificity |-> Ratio(tn, tn + fp), sensitivity |-> recall,
         truePositives |-> tp, falsePositives |-> fp,
         trueNegatives |-> tn, falseNegatives |-> fn]

WASM_ctor(width, height, dt) ==
    [model |-> FHN_ctor(width, height, dt),
     currentEpoch |-> 0, trainingMode |-> FALSE,
     epochResults |-> <<>>, trainingLoss |-> <<>>, validationLoss |-> <<>>,
     classificationHistory |-> <<>>]

WASM_runTrainingEpoch(w, steps) ==
    IF ~w.trainingMode THEN w
    ELSE
    LET m == FHN_run(w.model, steps).m
    IN  [w EXCEPT !.model = m,
                  !.epochResults = Append(@, <<w.currentEpoch, WASM_calculateEpochAccuracy(m)>>),
                  !.classificationHistory = Append(@, WASM_calculateClassificationMetrics(m)),
                  !.trainingLoss = Append(@, WASM_calculateTrainingLoss(m)),
                  !.validationLoss = Append(@, WASM_calculateValidationLoss(m)),
                  !.currentEpoch = @ + 1]

\* run(steps, enableTraining)
WASM_run(w, steps, enableTraining) ==
    IF enableTraining
    THEN WASM_runTrainingEpoch([w EXCEPT !.trainingMode = TRUE], steps)
    ELSE [w EXCEPT !.model = FHN_run(w.model, steps).m]

WASM_startTraining(w) ==
    [w EXCEPT !.trainingMode = TRUE, !.currentEpoch = 0, !.epochResults = <<>>,
              !.trainingLoss = <<>>, !.validationLoss = <<>>]

WASM_stopTraining(w) == [w EXCEPT !.trainingMode = FALSE]

\* the loop of runEpochs from iteration i on
RECURSIVE WASM_epochLoop(_, _, _, _)
WASM_epochLoop(w, i, numEpochs, stepsPerEpoch) ==
    IF i < numEpochs
    THEN WASM_epochLoop(WASM_runTrainingEpoch(w, stepsPerEpoch), i + 1, numEpochs,
                        stepsPerEpoch)
    ELSE w

WASM_runEpochs(w, numEpochs, stepsPerEpoch) ==
    WASM_epochLoop(WASM_startTraining(w), 0, numEpochs, stepsPerEpoch)

\* the objects of the other specifications, as constructed
InitOthers ==
    /\ validator = ModelValidator_ctor
    /\ succeeded = 0
    /\ files2 = [f \in {"state.dat"} |-> NoFile]
    /\ sim = WASM_ctor(GridW, GridH, DT)

others == <<validator, succeeded, files2, sim>>

Init ==
    /\ active \in {"FHN", "LR", "TT", "DTM"}
    /\ fhn = FHN_ctor(GridW, GridH, DT)
    /\ fresh = FHN_ctor(GridW, GridH, DT)
    /\ files = InitialFiles
    /\ savedFrom = [valid |-> FALSE, m |-> FHN_ctor(GridW, GridH, DT)]
    /\ ce = IF active = "TT" THEN TenTusscher_ctor(GridW, GridH, DT)
                             ELSE LuoRudy_ctor(GridW, GridH, DT)
    /\ maskSnap = [valid |-> FALSE, m |-> ce]
    /\ sinceStimulus = Grid(GridW, GridH, -1)
    /\ dtm = DTM_ctor(GridW, GridH, Fx(1, 1))
    /\ dtm2 = DTM_ctor(GridW, GridH, Fx(1, 1))
    /\ dtmFiles = [f \in DTMFileNames |-> NoFile]
    /\ dtmSaved = [f \in DTMFileNames |-> [valid |-> FALSE, m |-> dtm]]
    /\ InitOthers
    /\ last = Call("ctor", 0, 0, 0, Result(0, "void", 0, FALSE, ""))
    /\ nops = 0

\* a call on the FitzHughNagumo instance that touches no file
FHN_call(op, x, y, n, r) ==
    /\ fhn' = r.m
    /\ last' = Call(op, x, y, n, r)
    /\ nops' = nops + 1
    /\ UNCHANGED <<active, fresh, files, savedFrom, ce, maskSnap, dtm, dtm2,
                 dtmFiles, dtmSaved, others>>

\* the history sinceStimulus after k more steps
Aged(k) ==
    Tabulated([y \in Rows(GridH) |-> [x \in Cols(GridW) |->
        IF sinceStimulus[y][x] < 0 THEN sinceStimulus[y][x] ELSE sinceStimulus[y][x] + k]])

Initialize ==
    /\ active = "FHN" /\ nops < MaxOps
    /\ \E seed \in 1 .. NumSeeds :
          FHN_call("initialize", 0, 0, seed, FHN_initialize(fhn, seed))
    /\ UNCHANGED sinceStimulus

SetParameters ==
    /\ active = "FHN" /\ nops < MaxOps
    /\ \E p \in ParameterInputs :
          FHN_call("setParameters", 0, 0, 0, FHN_setParameters(fhn, p[1], p[2], p[3], p[4]))
    /\ UNCHANGED sinceStimulus

SetDiffusionCoefficients ==
    /\ active = "FHN" /\ nops < MaxOps
    /\ \E p \in DiffusionInputs :
          FHN_call("setDiffusionCoefficients", 0, 0, 0,
                   FHN_setDiffusionCoefficients(fhn, p[1], p[2]))
    /\ UNCHANGED sinceStimulus

SetInitialConditions ==
    /\ active = "FHN" /\ nops < MaxOps
    /\ \E ic \in InitialConditionInputs, junk \in JunkDoubles :
          FHN_call("setInitialConditions",
                   MinOf(RowSizes(ic.u) \cup RowSizes(ic.v)),
                   IF Size(ic.u) # GridH THEN Size(ic.u) ELSE Size(ic.v),
                   MaxOf(RowSizes(ic.u) \cup RowSizes(ic.v)),
                   FHN_setInitialConditions(fhn, ic.u, ic.v, junk))
    /\ UNCHANGED sinceStimulus

AddStimulus ==
    /\ active = "FHN" /\ nops < MaxOps
    /\ \E c \in CoordinateInputs, strength \in StrengthInputs, duration \in DurationInputs :
          LET r == FHN_addStimulus(fhn, c[1], c[2], strength, duration)
          IN  /\ FHN_call("addStimulus", c[1], c[2], 0, r)
              /\ sinceStimulus' = IF r.rejected THEN sinceStimulus
                                   ELSE Put(sinceStimulus, c[1], c[2], 0)

Step ==
    /\ active = "FHN" /\ nops < MaxOps
    /\ FHN_call("step", 0, 0, 1, Result(FHN_step(fhn), "void", 0, FALSE, ""))
    /\ sinceStimulus' = Aged(1)

Run ==
    /\ active = "FHN" /\ nops < MaxOps
    /\ \E steps \in StepsInputs :
          /\ FHN_call("run", 0, 0, steps, FHN_run(fhn, steps))
          /\ sinceStimulus' = Aged(Max(steps, 0))

SaveState ==
    /\ active = "FHN" /\ nops < MaxOps
    /\ \E opened \in BOOLEAN :
          LET s == FHN_saveState(fhn, opened)
          IN  /\ files' = IF s.written THEN [files EXCEPT !["state.dat"] = s.file] ELSE files
              /\ savedFrom' = IF s.written THEN [valid |-> TRUE, m |-> fhn] ELSE savedFrom
              /\ last' = Call("saveState", 0, 0, 0, s.res)
              /\ nops' = nops + 1
              /\ UNCHANGED <<active, fhn, fresh, ce, maskSnap, sinceStimulus, dtm, dtm2,
                 dtmFiles, dtmSaved, others>>

LoadState ==
    /\ active = "FHN" /\ nops < MaxOps
    /\ \E f \in FileNames, junk \in {<<0, 0>>, <<GridW, GridH>>} :
          FHN_call("loadState", 0, 0, 0, FHN_loadState(fhn, files[f], junk[1], junk[2]))
    /\ UNCHANGED sinceStimulus

\* FitzHughNagumo fresh(width, height, dt); fresh.loadState("state.dat")
LoadStateFresh ==
    /\ active = "FHN" /\ nops < MaxOps
    /\ \E junk \in {<<0, 0>>, <<GridW, GridH>>} :
          LET r == FHN_loadState(FHN_ctor(fhn.width_, fhn.height_, fhn.dt_),
                                 files["state.dat"], junk[1], junk[2])
          IN  /\ fresh' = r.m
              /\ last' = Call("loadStateFresh", 0, 0, 0, r)
              /\ nops' = nops + 1
              /\ UNCHANGED <<active, fhn, files, savedFrom, ce, maskSnap, sinceStimulus, dtm, dtm2,
                 dtmFiles, dtmSaved, others>>

\* a call on the CardiacElectrophysiology instance
CE_call(op, x, y, n, r) ==
    /\ ce' = r.m
    /\ last' = Call(op, x, y, n, r)
    /\ nops' = nops + 1
    /\ UNCHANGED <<active, fhn, fresh, files, savedFrom, sinceStimulus, dtm, dtm2,
                 dtmFiles, dtmSaved, others>>

SetMIRegion ==
    /\ active \in {"LR", "TT"} /\ nops < MaxOps
    /\ \E mask \in MaskInputs :
          LET r == CE_setMIRegion(ce, mask)
          IN  /\ CE_call("setMIRegion", MinOf(RowSizes(mask)), Size(mask),
                          MaxOf(RowSizes(mask)), r)
              /\ maskSnap' = IF r.rejected THEN maskSnap ELSE [valid |-> TRUE, m |-> r.m]

SetConductivity ==
    /\ active \in {"LR", "TT"} /\ nops < MaxOps
    /\ \E c \in ConductivityInputs :
          /\ CE_call("setConductivity", 0, 0, 0, CE_setConductivity(ce, c))
          /\ UNCHANGED maskSnap

SetCellType ==
    /\ active = "LR" /\ nops < MaxOps
    /\ \E label \in CellTypeInputs :
          /\ CE_call("setCellType", 0, 0, LabelNumber(CellTypeLabels, label),
                     LuoRudy_setCellType(ce, label))
          /\ UNCHANGED maskSnap

SetVariant ==
    /\ active = "TT" /\ nops < MaxOps
    /\ \E label \in VariantInputs :
          /\ CE_call("setVariant", 0, 0, LabelNumber(VariantLabels, label),
                     TenTusscher_setVariant(ce, label))
          /\ UNCHANGED maskSnap

CEStep ==
    /\ active \in {"LR", "TT"} /\ nops < MaxOps
    /\ \E junk \in BOOLEAN :
          /\ CE_call("step", 0, 0, 1, Result(CE_step(ce, junk), "void", 0, FALSE, ""))
          /\ UNCHANGED maskSnap

CERun ==
    /\ active \in {"LR", "TT"} /\ nops < MaxOps
    /\ \E steps \in StepsInputs, junk \in BOOLEAN :
          /\ CE_call("run", 0, 0, steps, CE_run(ce, steps, junk))
          /\ UNCHANGED maskSnap

\* a call on the DTM instance
DTM_call(op, x, y, n, r) ==
    /\ dtm' = r.m
    /\ last' = Call(op, x, y, n, r)
    /\ nops' = nops + 1
    /\ UNCHANGED <<active, fhn, fresh, files, savedFrom, ce, maskSnap, sinceStimulus,
                 dtm2, dtmFiles, dtmSaved, others>>

\* the record of the call holds the elevation passed in n
SetElevation ==
    /\ active = "DTM" /\ nops < MaxOps
    /\ \E c \in DTMCoordinateInputs, e \in ElevationInputs :
          DTM_call("setElevation", c[1], c[2], e, DTM_setElevation(dtm, c[1], c[2], e))

GetElevation ==
    /\ active = "DTM" /\ nops < MaxOps
    /\ \E c \in DTMCoordinateInputs :
          DTM_call("getElevation", c[1], c[2], 0, DTM_getElevation(dtm, c[1], c[2]))

\* the record of the call holds in n whether the file could be created
SaveToFile ==
    /\ active = "DTM" /\ nops < MaxOps
    /\ \E f \in DTMFileNames, opened \in BOOLEAN :
          LET s == DTM_saveToFile(dtm, opened)
          IN  /\ dtmFiles' = IF s.written THEN [dtmFiles EXCEPT ![f] = s.file] ELSE dtmFiles
              /\ dtmSaved' = IF s.written THEN [dtmSaved EXCEPT ![f] = [valid |-> TRUE, m |-> dtm]]
                                          ELSE dtmSaved
              /\ last' = Call("saveToFile", 0, 0, IF opened THEN 1 ELSE 0, s.res)
              /\ nops' = nops + 1
              /\ UNCHANGED <<active, fhn, fresh, files, savedFrom, ce, maskSnap, sinceStimulus,
                             dtm, dtm2, others>>

\* DTM dtm2(width, height); dtm2.loadFromFile("test_dtm.dat")
LoadFromFile ==
    /\ active = "DTM" /\ nops < MaxOps
    /\ \E f \in DTMFileNames, size \in DTMSizeInputs :
          LET r == DTM_loadFromFile(DTM_ctor(size[1], size[2], Fx(1, 1)), dtmFiles[f])
          IN  /\ dtm2' = r.m
              /\ last' = Call("loadFromFile", size[1], size[2], 0, r)
              /\ nops' = nops + 1
              /\ UNCHANGED <<active, fhn, fresh, files, savedFrom, ce, maskSnap, sinceStimulus,
                             dtm, dtmFiles, dtmSaved, others>>

\* files found on disk that no call writes: a word; a width and a height
\* alone; a 3 x 3 header followed by five values; nothing; a width 0 and a
\* word; a 2 x 2 header followed by four values
GivenDTMFiles ==
    << File(<<Word>>),
       File(<<Num(Fx(2, 1)), Num(Fx(2, 1))>>),
       File(<<Num(Fx(3, 1)), Num(Fx(3, 1)), Num(Fx(1, 1)),
              Num(Fx(1, 1)), Num(Fx(2, 1)), Num(Fx(3, 1)), Num(Fx(4, 1)), Num(Fx(5, 1))>>),
       File(<<>>),
       File(<<Num(0), Word>>),
       File(<<Num(Fx(2, 1)), Num(Fx(2, 1)), Num(Fx(5, 10)),
              Num(Fx(1, 1)), Num(Fx(2, 1)), Num(Fx(3, 1)), Num(Fx(4, 1))>>) >>

\* DTM dtm2(width, height); dtm2.loadFromFile(one of the files found on disk);
\* the record of the call holds the number of the file in n
LoadGivenFile ==
    /\ active = "DTM" /\ nops < MaxOps
    /\ \E f \in DOMAIN GivenDTMFiles, size \in DTMSizeInputs :
          LET r == DTM_loadFromFile(DTM_ctor(size[1], size[2], Fx(1, 1)), GivenDTMFiles[f])
          IN  /\ dtm2' = r.m
              /\ last' = Call("given.loadFromFile", size[1], size[2], f, r)
              /\ nops' = nops + 1
              /\ UNCHANGED <<active, fhn, fresh, files, savedFrom, ce, maskSnap, sinceStimulus,
                             dtm, dtmFiles, dtmSaved, others>>

Next ==
    \/ LoadGivenFile
    \/ Initialize
    \/ SetParameters
    \/ SetDiffusionCoefficients
    \/ SetInitialConditions
    \/ AddStimulus
    \/ Step
    \/ Run
    \/ SaveState
    \/ LoadState
    \/ LoadStateFresh
    \/ SetMIRegion
    \/ SetConductivity
    \/ SetCellType
    \/ SetVariant
    \/ CEStep
    \/ CERun
    \/ SetElevation
    \/ GetElevation
    \/ SaveToFile
    \/ LoadFromFile

Spec == Init /\ [][Next]_vars

----------------------------------------------------------------------------
(* Two FitzHughNagumo instances driven side by side: fhn and fresh are      *)
(* constructed alike; fresh may have been used before (initialize and step  *)
(* on it alone), then every call is made on both with the same arguments.   *)
(* What a call leaves undefined is drawn for each instance on its own.      *)

InitTwin == Init /\ active = "FHN"

\* a call made on both instances
Twin_call(op, n, r1, r2) ==
    /\ fhn' = r1.m
    /\ fresh' = r2.m
    /\ last' = Call(op, 0, 0, n, r1)
    /\ nops' = nops + 1
    /\ UNCHANGED <<active, files, savedFrom, ce, maskSnap, sinceStimulus, dtm, dtm2,
                 dtmFiles, dtmSaved, others>>

\* a call made on fresh alone, before the calls made on both
Solo_call(op, r) ==
    /\ fresh' = r.m
    /\ last' = Call(op, 0, 0, 0, r)
    /\ UNCHANGED <<active, fhn, files, savedFrom, ce, maskSnap, sinceStimulus, dtm, dtm2,
                 dtmFiles, dtmSaved, nops, others>>

SoloInitialize ==
    /\ last.op \in {"ctor", "fresh.step"}
    /\ \E seed \in 1 .. NumSeeds : Solo_call("fresh.initialize", FHN_initialize(fresh, seed))

SoloStep ==
    /\ last.op = "fresh.initialize"
    /\ Solo_call("fresh.step", Result(FHN_step(fresh), "void", 0, FALSE, ""))

TwinSetInitialConditions ==
    /\ nops < MaxOps
    /\ \E ic \in InitialConditionInputs, junk1 \in JunkDoubles, junk2 \in JunkDoubles :
          Twin_call("setInitialConditions", 0,
                    FHN_setInitialConditions(fhn, ic.u, ic.v, junk1),
                    FHN_setInitialConditions(fresh, ic.u, ic.v, junk2))

TwinSetParameters ==
    /\ nops < MaxOps
    /\ \E p \in ParameterInputs :
          Twin_call("setParameters", 0,
                    FHN_setParameters(fhn, p[1], p[2], p[3], p[4]),
                    FHN_setParameters(fresh, p[1], p[2], p[3], p[4]))

TwinSetDiffusionCoefficients ==
    /\ nops < MaxOps
    /\ \E p \in DiffusionInputs :
          Twin_call("setDiffusionCoefficients", 0,
                    FHN_setDiffusionCoefficients(fhn, p[1], p[2]),
                    FHN_setDiffusionCoefficients(fresh, p[1], p[2]))

TwinAddStimulus ==
    /\ nops < MaxOps
    /\ \E c \in CoordinateInputs, strength \in StrengthInputs, duration \in DurationInputs :
          Twin_call("addStimulus", 0,
                    FHN_addStimulus(fhn, c[1], c[2], strength, duration),
                    FHN_addStimulus(fresh, c[1], c[2], strength, duration))

TwinStep ==
    /\ nops < MaxOps
    /\ Twin_call("step", 1, Result(FHN_step(fhn), "void", 0, FALSE, ""),
                 Result(FHN_step(fresh), "void", 0, FALSE, ""))

TwinRun ==
    /\ nops < MaxOps
    /\ \E steps \in StepsInputs :
          Twin_call("run", steps, FHN_run(fhn, steps), FHN_run(fresh, steps))

NextTwin ==
    \/ SoloInitialize
    \/ SoloStep
    \/ TwinSetInitialConditions
    \/ TwinSetParameters
    \/ TwinSetDiffusionCoefficients
    \/ TwinAddStimulus
    \/ TwinStep
    \/ TwinRun

SpecTwin == InitTwin /\ [][NextTwin]_vars

----------------------------------------------------------------------------
(* Two runs of the program that make the same calls with the same arguments, *)
(* except for d in setParameters and duration in addStimulus.  The first    *)
(* run works on fhn and files, the second on fresh and files2.               *)

\* the values the second run passes for d and for duration
UnusedInputs == {0, Fx(10, 1), Infinity}

\* the calls a pair of runs may make
MaxPairOps == MaxOps + 1

\* a call both runs make, with its effect on the two file systems
Pair_call(op, r1, r2, f1, f2) ==
    /\ fhn' = r1.m
    /\ fresh' = r2.m
    /\ files' = f1
    /\ files2' = f2
    /\ last' = Call(op, 0, 0, 0, r1)
    /\ nops' = nops + 1
    /\ UNCHANGED <<active, savedFrom, ce, maskSnap, sinceStimulus, dtm, dtm2,
                   dtmFiles, dtmSaved, validator, succeeded, sim>>

PairSetParameters ==
    /\ nops < MaxPairOps
    /\ \E p \in ParameterInputs, d2 \in UnusedInputs :
          Pair_call("setParameters",
                    FHN_setParameters(fhn, p[1], p[2], p[3], p[4]),
                    FHN_setParameters(fresh, p[1], p[2], p[3], d2), files, files2)

PairAddStimulus ==
    /\ nops < MaxPairOps
    /\ \E c \in {<<CentreX, CentreY>>, <<-1, CentreY>>}, strength \in StrengthInputs,
          duration \in DurationInputs, duration2 \in UnusedInputs :
          Pair_call("addStimulus",
                    FHN_addStimulus(fhn, c[1], c[2], strength, duration),
                    FHN_addStimulus(fresh, c[1], c[2], strength, duration2), files, files2)

PairSetInitialConditions ==
    /\ nops < MaxPairOps
    /\ \E ic \in InitialConditionInputs, junk \in JunkDoubles :
          Pair_call("setInitialConditions",
                    FHN_setInitialConditions(fhn, ic.u, ic.v, junk),
                    FHN_setInitialConditions(fresh, ic.u, ic.v, junk), files, files2)

PairStep ==
    /\ nops < MaxPairOps
    /\ Pair_call("step", Result(FHN_step(fhn), "void", 0, FALSE, ""),
                 Result(FHN_step(fresh), "void", 0, FALSE, ""), files, files2)

PairSaveState ==
    /\ nops < MaxPairOps
    /\ LET s1 == FHN_saveState(fhn, TRUE)
           s2 == FHN_saveState(fresh, TRUE)
       IN  Pair_call("saveState", s1.res, s2.res,
                     [files EXCEPT !["state.dat"] = s1.file],
                     [files2 EXCEPT !["state.dat"] = s2.file])

PairLoadState ==
    /\ nops < MaxPairOps
    /\ Pair_call("loadState",
                 FHN_loadState(fhn, files["state.dat"], GridW, GridH),
                 FHN_loadState(fresh, files2["state.dat"], GridW, GridH), files, files2)

NextPair ==
    \/ PairSetParameters
    \/ PairAddStimulus
    \/ PairSetInitialConditions
    \/ PairStep
    \/ PairSaveState
    \/ PairLoadState

SpecPair == InitTwin /\ [][NextPair]_vars

----------------------------------------------------------------------------
(* Diffusion alone: the update of step() with the reaction terms left out, *)
(* applied to a field that is zero except for one elevated interior cell   *)

\* the side of the square grid the diffusion is run on
FieldSize == 7

\* the elevated value, and the time step and diffusion coefficient
\* (dt * coeff is 1/10, 1/5, 1/5 or 2/5)
AmplitudeInputs == {Fx(1, 1), Fx(1000, 1)}
TimeStepInputs == {Fx(1, 10), Fx(2, 10)}
CoefficientInputs == {Fx(1, 1), Fx(2, 1)}

\* u_new = u + dt * du_dt with du_dt as applyDiffusion leaves it
FHN_diffuse(m, zero) ==
    LET du_dt == FHN_applyDiffusion(m, m.u_, m.du_, zero)
    IN  [m EXCEPT !.u_ = Tabulated([y \in Rows(m.height_) |-> [x \in Cols(m.width_) |->
                                m.u_[y][x] + Mul(m.dt_, du_dt[y][x])]]),
                  !.u_new_ = m.u_,
                  !.time_ = @ + m.dt_]

InitDiffusion ==
    /\ active = "FHN"
    /\ \E x \in 1 .. (FieldSize - 2), y \in 1 .. (FieldSize - 2),
          amplitude \in AmplitudeInputs, dt \in TimeStepInputs, coeff \in CoefficientInputs :
          fhn = [FHN_ctor(FieldSize, FieldSize, dt) EXCEPT
                    !.du_ = coeff,
                    !.u_ = Put(@, x, y, amplitude)]
    /\ fresh = FHN_ctor(GridW, GridH, DT)
    /\ files = InitialFiles
    /\ savedFrom = [valid |-> FALSE, m |-> FHN_ctor(GridW, GridH, DT)]
    /\ ce = LuoRudy_ctor(GridW, GridH, DT)
    /\ maskSnap = [valid |-> FALSE, m |-> ce]
    /\ sinceStimulus = Grid(GridW, GridH, -1)
    /\ dtm = DTM_ctor(GridW, GridH, Fx(1, 1))
    /\ dtm2 = DTM_ctor(GridW, GridH, Fx(1, 1))
    /\ dtmFiles = [f \in DTMFileNames |-> NoFile]
    /\ dtmSaved = [f \in DTMFileNames |-> [valid |-> FALSE, m |-> dtm]]
    /\ InitOthers
    /\ last = Call("ctor", 0, 0, 0, Result(0, "void", 0, FALSE, ""))
    /\ nops = 0

Diffuse ==
    /\ nops < MaxOps
    /\ fhn' = FHN_diffuse(fhn, Grid(FieldSize, FieldSize, 0))
    /\ last' = Call("diffuse", 0, 0, 0, Result(0, "void", 0, FALSE, ""))
    /\ nops' = nops + 1
    /\ UNCHANGED <<active, fresh, files, savedFrom, ce, maskSnap, sinceStimulus, dtm, dtm2,
                 dtmFiles, dtmSaved, others>>

NextDiffusion == Diffuse

SpecDiffusion == InitDiffusion /\ [][NextDiffusion]_vars

----------------------------------------------------------------------------
(* applyDiffusion on its own: grids of every size up to MaxSide, a result   *)
(* that holds a known value in every entry before the call                  *)

\* the largest width and height applyDiffusion is run on
MaxSide == 4

\* the grid passed in: x^2 + 3 y^2 + 1, or x y
FieldInputs(w, h) ==
    {Tabulated([y \in Rows(h) |-> [x \in Cols(w) |-> Fx(x * x + 3 * y * y + 1, 1)]]),
     Tabulated([y \in Rows(h) |-> [x \in Cols(w) |-> Fx(x * y, 1)]])}

\* the tissue masks: none flagged, the cell (1, 1) and the corner flagged (where
\* the grid has them), and the latter with row 1 two entries short (setMIRegion
\* looks at the size of row 0 only)
StencilMaskInputs(w, h) ==
    {Grid(w, h, FALSE),
     Tabulated([y \in Rows(h) |-> [x \in Cols(w) |-> x = y /\ x <= 1]]),
     Tabulated([y \in Rows(h) |->
                   [x \in Cols(IF y = 1 THEN Max(w - 2, 0) ELSE w) |-> x = y /\ x <= 1]])}

\* what every entry of result holds before the call
ResultInputs == {0, Fx(7, 1)}

InitStencil ==
    /\ active \in {"FHN", "LR"}
    /\ \E w \in 0 .. MaxSide, h \in 0 .. MaxSide :
          /\ \E grid \in FieldInputs(w, h) :
                fhn = [FHN_ctor(w, h, DT) EXCEPT !.u_ = grid]
          /\ \E grid \in FieldInputs(w, h), mask \in StencilMaskInputs(w, h) :
                ce = [LuoRudy_ctor(w, h, DT) EXCEPT !.V_ = grid, !.mi_region_ = mask]
    /\ active = "FHN" => ce.V_ = fhn.u_ /\ ce.mi_region_ = Grid(ce.width_, ce.height_, FALSE)
    /\ active = "LR" => fhn.u_ = ce.V_
    /\ fresh = FHN_ctor(GridW, GridH, DT)
    /\ files = InitialFiles
    /\ savedFrom = [valid |-> FALSE, m |-> FHN_ctor(GridW, GridH, DT)]
    /\ maskSnap = [valid |-> FALSE, m |-> ce]
    /\ sinceStimulus = Grid(GridW, GridH, -1)
    /\ dtm = DTM_ctor(GridW, GridH, Fx(1, 1))
    /\ dtm2 = DTM_ctor(GridW, GridH, Fx(1, 1))
    /\ dtmFiles = [f \in DTMFileNames |-> NoFile]
    /\ dtmSaved = [f \in DTMFileNames |-> [valid |-> FALSE, m |-> dtm]]
    /\ InitOthers
    /\ last = Call("ctor", 0, 0, 0, Result(0, "void", 0, FALSE, ""))
    /\ nops = 0

\* a call of applyDiffusion: the record holds the grid written in val, what
\* result held before in n, and in x whether a read of the mask past the end of
\* a row yields true
Stencil_call(fill, junk, result) ==
    /\ last' = Call("applyDiffusion", IF junk THEN 1 ELSE 0, 0, fill,
                    Result(0, "void", result, FALSE, ""))
    /\ nops' = nops + 1
    /\ UNCHANGED <<active, fhn, fresh, files, savedFrom, ce, maskSnap, sinceStimulus, dtm,
                   dtm2, dtmFiles, dtmSaved, others>>

\* applyDiffusion(u_, du_, du_dt)
FHNApplyDiffusion ==
    /\ active = "FHN" /\ nops < MaxOps
    /\ \E fill \in ResultInputs :
          Stencil_call(fill, FALSE,
                       FHN_applyDiffusion(fhn, fhn.u_, fhn.du_,
                                          Grid(fhn.width_, fhn.height_, fill)))

\* applyDiffusion(V_, dV_dt)
CEApplyDiffusion ==
    /\ active = "LR" /\ nops < MaxOps
    /\ \E fill \in ResultInputs, junk \in BOOLEAN :
          Stencil_call(fill, junk,
                       CE_applyDiffusion(ce, ce.V_, Grid(ce.width_, ce.height_, fill), junk))

NextStencil ==
    \/ FHNApplyDiffusion
    \/ CEApplyDiffusion

SpecStencil == InitStencil /\ [][NextStencil]_vars

----------------------------------------------------------------------------
(* The specification of ModelValidator alone *)

\* the names addValidationData and validateModel are called with
DatasetNames == <<"test_dataset", "other">>

\* the vectors of vectors they are called with: no row, one row without
\* entries, one row of two entries, one row of three entries
DataInputs ==
    << <<>>,
       << <<>> >>,
       << <<Fx(1, 1), Fx(2, 1)>> >>,
       << <<Fx(11, 10), Fx(2, 1), Fx(3, 1)>> >> >>

\* what a read past the end of a row of doubles may yield
JunkInputs == {0, Fx(7, 1)}

InitValidator ==
    /\ active = "MV"
    /\ fhn = FHN_ctor(GridW, GridH, DT)
    /\ fresh = FHN_ctor(GridW, GridH, DT)
    /\ files = InitialFiles
    /\ savedFrom = [valid |-> FALSE, m |-> FHN_ctor(GridW, GridH, DT)]
    /\ ce = LuoRudy_ctor(GridW, GridH, DT)
    /\ maskSnap = [valid |-> FALSE, m |-> ce]
    /\ sinceStimulus = Grid(GridW, GridH, -1)
    /\ dtm = DTM_ctor(GridW, GridH, Fx(1, 1))
    /\ dtm2 = DTM_ctor(GridW, GridH, Fx(1, 1))
    /\ dtmFiles = [f \in DTMFileNames |-> NoFile]
    /\ dtmSaved = [f \in DTMFileNames |-> [valid |-> FALSE, m |-> dtm]]
    /\ InitOthers
    /\ last = Call("ctor", 0, 0, 0, Result(0, "void", 0, FALSE, ""))
    /\ nops = 0

\* a call on the ModelValidator instance: the record holds in x the number of
\* the vector of vectors and in y the number of the name it was given
Validator_call(op, x, y, n, r) ==
    /\ validator' = r.m
    /\ last' = Call(op, x, y, n, r)
    /\ nops' = nops + 1
    /\ UNCHANGED <<active, fhn, fresh, files, savedFrom, ce, maskSnap, sinceStimulus, dtm,
                   dtm2, dtmFiles, dtmSaved, files2, sim>>

AddValidationData ==
    /\ active = "MV" /\ nops < MaxOps
    /\ \E d \in DOMAIN DataInputs, k \in DOMAIN DatasetNames :
          /\ Validator_call("addValidationData", d, k, 0,
                 ModelValidator_addValidationData(validator, DatasetNames[k], DataInputs[d]))
          /\ UNCHANGED succeeded

ValidateModel ==
    /\ active = "MV" /\ nops < MaxOps
    /\ \E d \in DOMAIN DataInputs, k \in DOMAIN DatasetNames, junk \in JunkInputs :
          LET r == ModelValidator_validateModel(validator, DataInputs[d], DatasetNames[k], junk)
          IN  /\ Validator_call("validateModel", d, k, 0, r)
              /\ succeeded' = IF DOMAIN r.val # {} THEN succeeded + 1 ELSE succeeded

GenerateValidationReport ==
    /\ active = "MV" /\ nops < MaxOps
    /\ \E opened \in BOOLEAN :
          /\ Validator_call("generateValidationReport", 0, 0, IF opened THEN 1 ELSE 0,
                 ModelValidator_generateValidationReport(validator, opened))
          /\ UNCHANGED succeeded

NextValidator ==
    \/ AddValidationData
    \/ ValidateModel
    \/ GenerateValidationReport

SpecValidator == InitValidator /\ [][NextValidator]_vars

----------------------------------------------------------------------------
(* The specification of WASMFitzHughNagumo alone *)

\* the numbers of steps and of epochs the calls are made with
EpochStepsInputs == {0, 1}
NumEpochsInputs == {-1, 0, 1, 2}

InitTraining ==
    /\ active = "WASM"
    /\ fhn = FHN_ctor(GridW, GridH, DT)
    /\ fresh = FHN_ctor(GridW, GridH, DT)
    /\ files = InitialFiles
    /\ savedFrom = [valid |-> FALSE, m |-> FHN_ctor(GridW, GridH, DT)]
    /\ ce = LuoRudy_ctor(GridW, GridH, DT)
    /\ maskSnap = [valid |-> FALSE, m |-> ce]
    /\ sinceStimulus = Grid(GridW, GridH, -1)
    /\ dtm = DTM_ctor(GridW, GridH, Fx(1, 1))
    /\ dtm2 = DTM_ctor(GridW, GridH, Fx(1, 1))
    /\ dtmFiles = [f \in DTMFileNames |-> NoFile]
    /\ dtmSaved = [f \in DTMFileNames |-> [valid |-> FALSE, m |-> dtm]]
    /\ InitOthers
    /\ last = Call("ctor", 0, 0, 0, Result(0, "void", 0, FALSE, ""))
    /\ nops = 0

\* a call on the WASMFitzHughNagumo instance: the record holds the number of
\* steps in n and the number of epochs (or enableTraining as 1 or 0) in x
WASM_call(op, x, n, w) ==
    /\ sim' = w
    /\ last' = Call(op, x, 0, n, Result(0, "void", 0, FALSE, ""))
    /\ nops' = nops + 1
    /\ UNCHANGED <<active, fhn, fresh, files, savedFrom, ce, maskSnap, sinceStimulus, dtm,
                   dtm2, dtmFiles, dtmSaved, validator, succeeded, files2>>

StartTraining ==
    /\ active = "WASM" /\ nops < MaxOps
    /\ WASM_call("startTraining", 0, 0, WASM_startTraining(sim))

StopTraining ==
    /\ active = "WASM" /\ nops < MaxOps
    /\ WASM_call("stopTraining", 0, 0, WASM_stopTraining(sim))

WasmRun ==
    /\ active = "WASM" /\ nops < MaxOps
    /\ \E steps \in EpochStepsInputs, enableTraining \in BOOLEAN :
          WASM_call("run", IF enableTraining THEN 1 ELSE 0, steps,
                    WASM_run(sim, steps, enableTraining))

RunTrainingEpoch ==
    /\ active = "WASM" /\ nops < MaxOps
    /\ \E steps \in EpochStepsInputs :
          WASM_call("runTrainingEpoch", 0, steps, WASM_runTrainingEpoch(sim, steps))

RunEpochs ==
    /\ active = "WASM" /\ nops < MaxOps
    /\ \E numEpochs \in NumEpochsInputs, stepsPerEpoch \in EpochStepsInputs :
          WASM_call("runEpochs", numEpochs, stepsPerEpoch,
                    WASM_runEpochs(sim, numEpochs, stepsPerEpoch))

NextTraining ==
    \/ StartTraining
    \/ StopTraining
    \/ WasmRun
    \/ RunTrainingEpoch
    \/ RunEpochs

SpecTraining == InitTraining /\ [][NextTraining]_vars

----------------------------------------------------------------------------
(* The loops of the three step() functions cell by cell, as the code runs   *)
(* them: the members are updated where the code updates them, and the       *)
(* member arrays (and the local V_new) read and written are recorded.       *)

\* the state of a step under way: the object, the local V_new, and the names
\* of the arrays read and written so far
InStep(m, V_new, reads, writes) ==
    [m |-> m, V_new |-> V_new, reads |-> reads, writes |-> writes]

\* a faulty loop body: the diffusion term of u is taken inside the loop from
\* u_new_, the grid being written
FHN_cellInPlace_fromWritten(acc, x, y, du_dt, dv_dt) ==
    LET w   == acc.m.u_new_
        lap == IF x >= 1 /\ x < acc.m.width_ - 1 /\ y >= 1 /\ y < acc.m.height_ - 1
               THEN w[y - 1][x] + w[y + 1][x] + w[y][x - 1] + w[y][x + 1] - 4 * w[y][x]
               ELSE 0
    IN  InStep([acc.m EXCEPT
                   !.u_new_ = Put(@, x, y, acc.m.u_[y][x] + Mul(acc.m.dt_, lap
                                  + FHN_reactionU(acc.m.u_[y][x], acc.m.v_[y][x],
                                                  acc.m.stimulus_[y][x]))),
                   !.v_new_ = Put(@, x, y, acc.m.v_[y][x] + Mul(acc.m.dt_, dv_dt[y][x]
                                  + FHN_reactionV(acc.m, acc.m.u_[y][x], acc.m.v_[y][x])))],
               acc.V_new,
               acc.reads \cup {"u_", "v_", "stimulus_", "u_new_"},
               acc.writes \cup {"u_new_", "v_new_"})

\* one iteration of the loop of FitzHughNagumo::step: u_new_[y][x] and
\* v_new_[y][x] are written from u_, v_ and stimulus_
FHN_cellInPlace(acc, x, y, du_dt, dv_dt) ==
    InStep([acc.m EXCEPT
               !.u_new_ = Put(@, x, y, acc.m.u_[y][x] + Mul(acc.m.dt_, du_dt[y][x]
                              + FHN_reactionU(acc.m.u_[y][x], acc.m.v_[y][x],
                                              acc.m.stimulus_[y][x]))),
               !.v_new_ = Put(@, x, y, acc.m.v_[y][x] + Mul(acc.m.dt_, dv_dt[y][x]
                              + FHN_reactionV(acc.m, acc.m.u_[y][x], acc.m.v_[y][x])))],
           acc.V_new,
           acc.reads \cup {"u_", "v_", "stimulus_"},
           acc.writes \cup {"u_new_", "v_new_"})

\* the loop from cell k on, in row-major order
RECURSIVE FHN_loopInPlace(_, _, _, _)
FHN_loopInPlace(acc, du_dt, dv_dt, k) ==
    IF k >= acc.m.width_ * acc.m.height_ THEN acc
    ELSE FHN_loopInPlace(
             FHN_cellInPlace(acc, k % acc.m.width_, k \div acc.m.width_, du_dt, dv_dt),
             du_dt, dv_dt, k + 1)

\* u_.swap(u_new_); v_.swap(v_new_); time_ += dt_
FHN_swap(acc) ==
    InStep([acc.m EXCEPT !.u_ = acc.m.u_new_, !.u_new_ = acc.m.u_,
                         !.v_ = acc.m.v_new_, !.v_new_ = acc.m.v_,
                         !.time_ = @ + acc.m.dt_],
           acc.V_new, acc.reads, acc.writes)

\* FitzHughNagumo::step as the code runs it
FHN_stepInPlace(m) ==
    FHN_swap(FHN_loopInPlace(
        InStep(m, <<>>,
               (IF m.du_ > 0 THEN {"u_"} ELSE {}) \cup (IF m.dv_ > 0 THEN {"v_"} ELSE {}),
               {}),
        IF m.du_ > 0
        THEN FHN_applyDiffusion(m, m.u_, m.du_, Grid(m.width_, m.height_, 0))
        ELSE Grid(m.width_, m.height_, 0),
        IF m.dv_ > 0
        THEN FHN_applyDiffusion(m, m.v_, m.dv_, Grid(m.width_, m.height_, 0))
        ELSE Grid(m.width_, m.height_, 0),
        0))

\* the member arrays calculateIonicCurrents and the loop body read at a cell
\* that is not scar, and those the loop body writes there
CE_cellReads(m) ==
    IF m.class = "LuoRudyModel"
    THEN {"mi_region_", "V_", "Cai_", "m_", "h_", "j_", "d_", "f_", "fca_", "xr_", "xs_"}
    ELSE {"mi_region_", "V_", "Cai_", "Nai_", "Ki_", "m_", "h_", "j_", "d_", "f_", "fca_",
          "u_", "v_", "oa_", "oi_"}

\* the members the loop body updates in place at a cell that is not scar
CE_cellWrites(m) ==
    IF m.class = "LuoRudyModel" THEN {"m_", "h_", "xr_", "Cai_"} ELSE {"m_", "u_", "Cai_"}

\* the values the loop body computes for cell (x, y) when V_val holds v
CE_cellValues(m, x, y, dV_dt, v) ==
    IF m.class = "LuoRudyModel"
    THEN LuoRudy_update(m, x, y, dV_dt, LuoRudy_calculateIonicCurrents(m, x, y), v)
    ELSE TenTusscher_update(m, x, y, dV_dt, TenTusscher_calculateIonicCurrents(m, x, y), v)

\* the loop body's writes: V_new[y][x], and the gates and calcium in place
CE_store(acc, x, y, upd) ==
    InStep([f \in DOMAIN acc.m |->
               IF f \in CE_cellWrites(acc.m) THEN Put(acc.m[f], x, y, upd[f]) ELSE acc.m[f]],
           Put(acc.V_new, x, y, upd.V_),
           acc.reads \cup CE_cellReads(acc.m),
           acc.writes \cup {"V_new"} \cup CE_cellWrites(acc.m))

\* a faulty loop body: V_new is V_ itself, so the new potential is written
\* into V_ and "double V_val = V_[y][x]" reads it back for the gates
CE_cellInPlace_aliased(acc, x, y, dV_dt, junk) ==
    IF IsScar(acc.m, x, y, junk)
    THEN InStep(acc.m, Put(acc.V_new, x, y, acc.m.V_[y][x]),
                acc.reads \cup {"mi_region_", "V_"}, acc.writes \cup {"V_"})
    ELSE CE_store(acc, x, y,
                  CE_cellValues(acc.m, x, y, dV_dt,
                                CE_cellValues(acc.m, x, y, dV_dt, acc.m.V_[y][x]).V_))

\* one iteration of the loop of LuoRudyModel::step and TenTusscherModel::step
CE_cellInPlace(acc, x, y, dV_dt, junk) ==
    IF IsScar(acc.m, x, y, junk)
    THEN InStep(acc.m, Put(acc.V_new, x, y, acc.m.V_[y][x]),
                acc.reads \cup {"mi_region_", "V_"}, acc.writes \cup {"V_new"})
    ELSE CE_store(acc, x, y, CE_cellValues(acc.m, x, y, dV_dt, acc.m.V_[y][x]))

RECURSIVE CE_loopInPlace(_, _, _, _)
CE_loopInPlace(acc, dV_dt, junk, k) ==
    IF k >= acc.m.width_ * acc.m.height_ THEN acc
    ELSE CE_loopInPlace(
             CE_cellInPlace(acc, k % acc.m.width_, k \div acc.m.width_, dV_dt, junk),
             dV_dt, junk, k + 1)

\* V_ = V_new; time_ += dt_
CE_commit(acc) ==
    InStep([acc.m EXCEPT !.V_ = acc.V_new, !.time_ = @ + acc.m.dt_],
           acc.V_new, acc.reads, acc.writes)

\* LuoRudyModel::step and TenTusscherModel::step as the code runs them
CE_stepInPlace(m, junk) ==
    CE_commit(CE_loopInPlace(
        InStep(m, Grid(m.width_, m.height_, 0), {"V_", "mi_region_"}, {}),
        CE_applyDiffusion(m, m.V_, Grid(m.width_, m.height_, 0), junk),
        junk, 0))

----------------------------------------------------------------------------
(* The same loops with the cells visited in another order.  An order is the *)
(* sequence of the cell numbers y * width + x in which the body runs.       *)

RowMajor(w, h) == [i \in 1 .. (w * h) |-> i - 1]
ColumnMajor(w, h) == [i \in 1 .. (w * h) |-> ((i - 1) % h) * w + ((i - 1) \div h)]
Reversed(order) == [i \in DOMAIN order |-> order[Len(order) + 1 - i]]

\* the cells with an even number first, then those with an odd number
EvenOdd(w, h) ==
    LET n     == w * h
        evens == (n + 1) \div 2
    IN  [i \in 1 .. n |-> IF i <= evens THEN 2 * (i - 1) ELSE 2 * (i - evens) - 1]

VisitOrders(w, h) ==
    {RowMajor(w, h), Reversed(RowMajor(w, h)), ColumnMajor(w, h),
     Reversed(ColumnMajor(w, h)), EvenOdd(w, h)}

RECURSIVE FHN_loopInOrder(_, _, _, _, _)
FHN_loopInOrder(acc, du_dt, dv_dt, order, i) ==
    IF i > Len(order) THEN acc
    ELSE FHN_loopInOrder(
             FHN_cellInPlace(acc, order[i] % acc.m.width_, order[i] \div acc.m.width_,
                             du_dt, dv_dt),
             du_dt, dv_dt, order, i + 1)

\* the object after FitzHughNagumo::step with its loop run in the order given
FHN_stepInOrder(m, order) ==
    FHN_swap(FHN_loopInOrder(
        InStep(m, <<>>, {}, {}),
        IF m.du_ > 0
        THEN FHN_applyDiffusion(m, m.u_, m.du_, Grid(m.width_, m.height_, 0))
        ELSE Grid(m.width_, m.height_, 0),
        IF m.dv_ > 0
        THEN FHN_applyDiffusion(m, m.v_, m.dv_, Grid(m.width_, m.height_, 0))
        ELSE Grid(m.width_, m.height_, 0),
        order, 1)).m

RECURSIVE CE_loopInOrder(_, _, _, _, _)
CE_loopInOrder(acc, dV_dt, junk, order, i) ==
    IF i > Len(order) THEN acc
    ELSE CE_loopInOrder(
             CE_cellInPlace(acc, order[i] % acc.m.width_, order[i] \div acc.m.width_,
                            dV_dt, junk),
             dV_dt, junk, order, i + 1)

\* the object after LuoRudyModel::step or TenTusscherModel::step with its loop
\* run in the order given
CE_stepInOrder(m, order, junk) ==
    CE_commit(CE_loopInOrder(
        InStep(m, Grid(m.width_, m.height_, 0), {}, {}),
        CE_applyDiffusion(m, m.V_, Grid(m.width_, m.height_, 0), junk),
        junk, order, 1)).m

----------------------------------------------------------------------------
(* Properties *)

\* the per-cell state fields of the two ionic models (their member grids)
LuoRudyFields ==
    {"V_", "m_", "h_", "j_", "xr_", "xs_", "d_", "f_", "fca_", "Cai_", "CaSR_"}
TenTusscherFields ==
    {"V_", "m_", "h_", "j_", "oa_", "oi_", "d_", "f_", "fca_", "u_", "v_", "w_",
     "Cai_", "CaSR_", "CaSS_", "Nai_", "Ki_"}
PerCellFields(m) ==
    IF m.class = "LuoRudyModel" THEN LuoRudyFields ELSE TenTusscherFields

\* every per-cell field of cell (x, y)
CellState(m, x, y) == [f \in PerCellFields(m) |-> m[f][y][x]]

\* cell (x, y) is flagged scar in the mask the model holds
Flagged(m, x, y) ==
    /\ y \in DOMAIN m.mi_region_
    /\ x \in DOMAIN m.mi_region_[y]
    /\ m.mi_region_[y][x]

InGrid(x, y) == x \in Cols(GridW) /\ y \in Rows(GridH)

IonicModels == {"LR", "TT"}

\* C1: scar invariance.  For LuoRudyModel and TenTusscherModel, once
\* setMIRegion has accepted a mask, every cell the mask flags holds, in every
\* later state (after any step, run, setCellType, setVariant, setConductivity),
\* the membrane potential and every other per-cell field it held when the mask
\* was applied.
C1_ScarInvariance ==
    (active \in IonicModels /\ maskSnap.valid) =>
        \A y \in Rows(ce.height_), x \in Cols(ce.width_) :
            Flagged(ce, x, y) => CellState(ce, x, y) = CellState(maskSnap.m, x, y)

\* C1 happens: a mask flagging the centre cell was accepted, steps were run
\* after it and moved some unflagged cell away from its value at that moment.
C1_Witness ==
    /\ active \in IonicModels /\ maskSnap.valid
    /\ Flagged(ce, CentreX, CentreY)
    /\ ce.time_ >= maskSnap.m.time_ + 2 * ce.dt_
    /\ \E y \in Rows(ce.height_), x \in Cols(ce.width_) :
          ~Flagged(ce, x, y) /\ CellState(ce, x, y) # CellState(maskSnap.m, x, y)

C3_LoadStateAllOrNothing ==
    [][(last'.op = "loadState" /\ last'.ret = "false") =>
           /\ fhn'.time_ = fhn.time_
           /\ fhn'.a_ = fhn.a_ /\ fhn'.b_ = fhn.b_ /\ fhn'.c_ = fhn.c_ /\ fhn'.d_ = fhn.d_
           /\ fhn'.du_ = fhn.du_ /\ fhn'.dv_ = fhn.dv_
           /\ fhn'.u_ = fhn.u_ /\ fhn'.v_ = fhn.v_]_vars

\* C4 as stated: saveState followed by loadState of that file into a freshly
\* constructed model of the same width and height returns true and gives the
\* loader the saver's time, parameters and u and v at every cell.
C4_SaveLoadRoundTrip ==
    (last.op = "loadStateFresh" /\ savedFrom.valid) =>
        /\ last.ret = "true"
        /\ fresh.time_ = savedFrom.m.time_
        /\ fresh.a_ = savedFrom.m.a_ /\ fresh.b_ = savedFrom.m.b_
        /\ fresh.c_ = savedFrom.m.c_ /\ fresh.d_ = savedFrom.m.d_
        /\ fresh.du_ = savedFrom.m.du_ /\ fresh.dv_ = savedFrom.m.dv_
        /\ fresh.u_ = savedFrom.m.u_ /\ fresh.v_ = savedFrom.m.v_

\* C5 as stated: setMIRegion and setInitialConditions given an argument whose
\* row count is not H, or one of whose rows does not hold exactly W entries,
\* change nothing.
C5_DimensionMismatchRejected ==
    [][(/\ last'.op \in {"setMIRegion", "setInitialConditions"}
        /\ (last'.y # GridH \/ last'.x # GridW \/ last'.n # GridW)) =>
           (fhn' = fhn /\ ce' = ce)]_vars

C7_BoundaryRejection ==
    [][/\ (last'.op = "addStimulus" /\ ~InGrid(last'.x, last'.y)) =>
             /\ fhn' = fhn
             /\ DOMAIN fhn'.stimulus_ = Rows(GridH)
             /\ \A y \in Rows(GridH) : DOMAIN fhn'.stimulus_[y] = Cols(GridW)
       /\ (last'.op = "setElevation" /\ ~InGrid(last'.x, last'.y)) =>
             /\ dtm' = dtm
             /\ DOMAIN dtm'.elevation_data_ = Rows(GridH)
             /\ \A y \in Rows(GridH) : DOMAIN dtm'.elevation_data_[y] = Cols(GridW)]_vars

\* C7 happens: an out-of-range addStimulus was made on a model that holds a
\* stimulus, or an out-of-range setElevation on a grid that holds an elevation.
C7_Witness ==
    /\ ~InGrid(last.x, last.y) /\ last.rejected
    /\ \/ /\ last.op = "addStimulus"
          /\ fhn.stimulus_[CentreY][CentreX] # 0
       \/ /\ last.op = "setElevation"
          /\ dtm.elevation_data_[CentreY][CentreX] # 0

\* the operations that can reject their input
RejectingOps ==
    {"addStimulus", "setInitialConditions", "setMIRegion", "setElevation", "getElevation"}

C9_RunZeroIsNoOp ==
    [][(last'.op = "run" /\ last'.n = 0) => (fhn' = fhn /\ ce' = ce)]_vars

\* C9 happens: run(0) was called on a model that had already advanced.
C9_Witness ==
    /\ last.op = "run" /\ last.n = 0
    /\ \/ active = "FHN" /\ fhn.time_ > 0
       \/ active \in IonicModels /\ ce.time_ > 0

\* m after n consecutive step() calls
RECURSIVE FHN_steps(_, _)
FHN_steps(m, n) == IF n = 0 THEN m ELSE FHN_steps(FHN_step(m), n - 1)

RECURSIVE CE_steps(_, _, _)
CE_steps(m, n, junk) == IF n = 0 THEN m ELSE CE_steps(CE_step(m, junk), n - 1, junk)

\* C10: run(N), N >= 0, leaves the model in the state N consecutive step()
\* calls leave it in, and the time afterwards is the time before plus N * dt.
C10_RunIsNSteps ==
    [][(last'.op = "run" /\ last'.n >= 0) =>
           /\ active = "FHN" =>
                 /\ fhn' = FHN_steps(fhn, last'.n)
                 /\ fhn'.time_ = fhn.time_ + last'.n * fhn.dt_
           /\ active \in IonicModels =>
                 /\ \E junk \in BOOLEAN : ce' = CE_steps(ce, last'.n, junk)
                 /\ ce'.time_ = ce.time_ + last'.n * ce.dt_]_vars

\* C10 happens: run(2) was called and advanced the time by two steps or more.
C10_Witness ==
    /\ last.op = "run" /\ last.n = 2
    /\ \/ active = "FHN" /\ fhn.time_ >= 2 * fhn.dt_ /\ fhn.u_ # fhn.u_new_
       \/ active \in IonicModels /\ ce.time_ >= 2 * ce.dt_

\* the operations of FitzHughNagumo that neither step nor restore a state
TimeNeutralOps ==
    {"setParameters", "setDiffusionCoefficients", "setInitialConditions",
     "addStimulus", "saveState"}

\* C11 as stated: over every public operation of a FitzHughNagumo (step, run,
\* initialize, the setters, addStimulus, saveState, loadState) getTime() is
\* never smaller after the operation than before it, and it changes only by
\* +dt per executed step.
C11_TimeMonotonic ==
    [][active = "FHN" =>
          /\ fhn'.time_ >= fhn.time_
          /\ fhn'.time_ # fhn.time_ =>
                /\ last'.op \in {"step", "run"}
                /\ fhn'.time_ = fhn.time_ + last'.n * fhn.dt_]_vars

\* C11 amended: step adds dt to the time and run(N) adds dt once per executed
\* step, so the time never decreases under them; the setters, addStimulus and
\* saveState leave it unchanged; initialize resets it to 0; loadState replaces
\* it by the third value of the file (0 when that token is no number), also
\* when it then rejects the file, and leaves it alone when the file cannot be
\* opened or the header cannot be read that far.  LuoRudyModel and
\* TenTusscherModel: +dt per executed step, unchanged by every other call.
C11_TimeChangesOnlyByStepResetRestore ==
    [][/\ active = "FHN" =>
             /\ last'.op = "step" => fhn'.time_ = fhn.time_ + fhn.dt_
             /\ last'.op = "run" => fhn'.time_ = fhn.time_ + Max(last'.n, 0) * fhn.dt_
             /\ last'.op \in {"step", "run"} => fhn'.time_ >= fhn.time_
             /\ last'.op \in TimeNeutralOps => fhn'.time_ = fhn.time_
             /\ last'.op = "initialize" => fhn'.time_ = 0
             /\ (last'.op = "loadState" /\ fhn'.time_ # fhn.time_) =>
                   \E f \in FileNames :
                       /\ files[f].exists
                       /\ Len(files[f].toks) >= 3
                       /\ files[f].toks[1].num /\ files[f].toks[2].num
                       /\ fhn'.time_ = files[f].toks[3].v
       /\ active \in IonicModels =>
             ce'.time_ = ce.time_
                         + (CASE last'.op = "step" -> ce.dt_
                              [] last'.op = "run" -> Max(last'.n, 0) * ce.dt_
                              [] OTHER -> 0)]_vars

\* C11 happens: initialize was called on a model that steps had advanced (its
\* back buffer holds a stepped field), and the time is 0 again.
C11_Witness ==
    /\ active = "FHN" /\ last.op = "initialize"
    /\ fhn.v_new_ # Grid(GridW, GridH, 0)
    /\ fhn.time_ = 0

\* grid[y-1][x] + grid[y+1][x] + grid[y][x-1] + grid[y][x+1] - 4 * grid[y][x]
Laplacian(grid, x, y) ==
    grid[y - 1][x] + grid[y + 1][x] + grid[y][x - 1] + grid[y][x + 1] - 4 * grid[y][x]

Interior(x, y) == x >= 1 /\ x < GridW - 1 /\ y >= 1 /\ y < GridH - 1

\* a field whose Laplacian is 8 at every interior cell: x^2 + 3 y^2 + 1
CurvedField ==
    Tabulated([y \in Rows(GridH) |-> [x \in Cols(GridW) |->
        Fx(x * x + 3 * y * y + 1, 1)]])

\* the fields applyDiffusion is probed with: the membrane potential the step
\* passes, and the curved field
DiffusedFields(m) == {m.V_, CurvedField}

\* C12: zero diffusion into scar.  For LuoRudyModel and TenTusscherModel, in
\* every reachable state, the diffusion term applyDiffusion computes into the
\* zeroed dV_dt of a step is exactly 0 at every cell the mask flags, whatever
\* the cell and its four neighbours hold.
C12_ZeroDiffusionIntoScar ==
    active \in IonicModels =>
        \A grid \in DiffusedFields(ce), junk \in BOOLEAN :
            \A y \in Rows(ce.height_), x \in Cols(ce.width_) :
                Flagged(ce, x, y) =>
                    CE_applyDiffusion(ce, grid, Grid(ce.width_, ce.height_, 0), junk)[y][x] = 0

\* C12 happens: a step has run with the interior centre cell flagged while its
\* potential and those of its neighbours have a Laplacian that is not 0, under
\* a conductivity that is not 0.
C12_Witness ==
    /\ active \in IonicModels /\ last.op = "step"
    /\ Interior(CentreX, CentreY) /\ Flagged(ce, CentreX, CentreY)
    /\ ce.conductivity_ # 0
    /\ Mul(ce.conductivity_, Laplacian(ce.V_, CentreX, CentreY)) # 0

\* vec has exactly h rows of exactly w entries each
HasShape(vec, w, h) ==
    /\ DOMAIN vec = Rows(h)
    /\ \A y \in Rows(h) : DOMAIN vec[y] = Cols(w)

\* the member grids of FitzHughNagumo
FitzHughNagumoFields == {"u_", "v_", "u_new_", "v_new_", "stimulus_"}

\* C13 as stated: in every reachable state width and height are those of the
\* construction, and every field array, the stimulus grid and the tissue mask
\* have exactly H rows of exactly W entries.
C13_NeverResized ==
    /\ active = "FHN" =>
          /\ fhn.width_ = GridW /\ fhn.height_ = GridH
          /\ \A f \in FitzHughNagumoFields : HasShape(fhn[f], GridW, GridH)
    /\ active \in IonicModels =>
          /\ ce.width_ = GridW /\ ce.height_ = GridH
          /\ \A f \in PerCellFields(ce) : HasShape(ce[f], GridW, GridH)
          /\ HasShape(ce.mi_region_, GridW, GridH)

\* two instances agree on what the caller configures and observes: dimensions,
\* dt, the fields u and v, the parameters, the diffusion coefficients, the
\* stimuli and the time
SameConfiguration(m1, m2) ==
    /\ m1.width_ = m2.width_ /\ m1.height_ = m2.height_ /\ m1.dt_ = m2.dt_
    /\ m1.u_ = m2.u_ /\ m1.v_ = m2.v_
    /\ m1.a_ = m2.a_ /\ m1.b_ = m2.b_ /\ m1.c_ = m2.c_ /\ m1.d_ = m2.d_
    /\ m1.du_ = m2.du_ /\ m1.dv_ = m2.dv_
    /\ m1.stimulus_ = m2.stimulus_
    /\ m1.time_ = m2.time_

\* C14: determinism.  Two FitzHughNagumo instances that hold identical
\* dimensions, dt, fields u and v, parameters, diffusion coefficients, stimuli
\* and time, and are given the same step or run call, hold identical u, v and
\* time (and so again an identical configuration) afterwards, whatever each
\* was used for before: step and run draw nothing at random and read nothing
\* but that configuration.
C14_Determinism ==
    [][(SameConfiguration(fhn, fresh) /\ last'.op \in {"step", "run"}) =>
           /\ fhn'.u_ = fresh'.u_ /\ fhn'.v_ = fresh'.v_ /\ fhn'.time_ = fresh'.time_
           /\ SameConfiguration(fhn', fresh')]_vars

\* C14 happens: both instances were given the same initial fields and the
\* same run(2), and they hold the same time and the same fields, which are no
\* longer the initial ones.
C14_Witness ==
    /\ last.op = "run" /\ last.n = 2
    /\ SameConfiguration(fhn, fresh)
    /\ fhn.time_ = 2 * fhn.dt_
    /\ fhn.u_[CentreY][CentreX] # 0 /\ fhn.u_[CentreY][CentreX] # Fx(1, 1)
    /\ fhn.v_ # fhn.v_new_

ReadsArePreStep(acc, after, inPlace, current) ==
    /\ acc.m = after
    /\ acc.reads \cap acc.writes \subseteq inPlace
    /\ acc.writes \cap current = {}
    /\ "V_new" \notin acc.reads

----------------------------------------------------------------------------
(* Diffusion alone *)

\* the cells applyDiffusion writes: all but the outer ring
InteriorCells(field) ==
    {c \in (1 .. (Size(field[0]) - 2)) \X (1 .. (Size(field) - 2)) : TRUE}

\* the interior cells next to the outer ring
NextToRing(field) ==
    {c \in InteriorCells(field) :
        \/ c[1] \in {1, Size(field[0]) - 2}
        \/ c[2] \in {1, Size(field) - 2}}

RECURSIVE SumOver(_, _)
SumOver(field, cells) ==
    IF cells = {} THEN 0
    ELSE LET c == CHOOSE c \in cells : TRUE
         IN  field[c[2]][c[1]] + SumOver(field, cells \ {c})

InteriorSum(field) == SumOver(field, InteriorCells(field))

\* the largest value of the field
Peak(field) == MaxOf({field[y][x] : y \in DOMAIN field, x \in DOMAIN field[0]})

\* 0 < dt * coeff < 1/4
StableStep(m) == 0 < Mul(m.dt_, m.du_) /\ 4 * Mul(m.dt_, m.du_) < SCALE

Mid == FieldSize \div 2

\* C16: an application of the diffusion alone to a field that holds zero in
\* every interior cell next to the outer ring (and in the ring) leaves the sum
\* of the field over the interior cells as it was.
C16_DiffusionConservesMass ==
    [][(last'.op = "diffuse" /\ \A c \in NextToRing(fhn.u_) : fhn.u_[c[2]][c[1]] = 0)
          => InteriorSum(fhn'.u_) = InteriorSum(fhn.u_)]_vars

\* C16 happens: the diffusion has been applied twice to a field elevated at the
\* middle cell; the elevation has spread two cells in each direction, up to
\* the cells next to the ring, and the interior still sums to what the middle
\* cell held at the start.
C16_Witness ==
    /\ last.op = "diffuse" /\ nops = 2
    /\ fhn.u_[Mid][Mid - 2] # 0 /\ fhn.u_[Mid][Mid + 2] # 0
    /\ fhn.u_[Mid - 2][Mid] # 0 /\ fhn.u_[Mid + 2][Mid] # 0
    /\ fhn.u_[Mid][Mid] # 0
    /\ InteriorSum(fhn.u_) \in AmplitudeInputs

----------------------------------------------------------------------------
(* Labels *)

\* the label of the last setCellType or setVariant call
LastLabel == IF last.op = "setCellType" THEN CellTypeLabels[last.n] ELSE VariantLabels[last.n]

\* the conductances of the two models
LuoRudyConductances == {"GNa_", "Gsi_", "GK_", "GK1_", "Gb_", "GCaL_"}
TenTusscherConductances ==
    {"GNa_", "GCaL_", "GKr_", "GKs_", "GK1_", "Gto_", "GNaCa_", "GNaK_"}

\* C18: a setCellType with a label other than "normal", "ischemic",
\* "infarcted", and a setVariant with a label other than "epi", "endo", "mid",
\* leave the whole model as it was; after construction a LuoRudyModel holds
\* the conductances of "normal" and a TenTusscherModel those of "epi".
C18_UnrecognizedLabelsIgnored ==
    /\ active = "LR" =>
          /\ ce = LuoRudy_setCellType(ce, "normal").m
          /\ \A g \in LuoRudyConductances : ce[g] > 0
    /\ active = "TT" =>
          /\ ce = TenTusscher_setVariant(ce, "epi").m
          /\ \A g \in TenTusscherConductances : ce[g] > 0
    /\ [][/\ (last'.op = "setCellType"
                /\ LastLabel' \notin {"normal", "ischemic", "infarcted"}) => ce' = ce
          /\ (last'.op = "setVariant"
                /\ LastLabel' \notin {"epi", "endo", "mid"}) => ce' = ce]_vars

\* C18 happens: a LuoRudyModel set to "ischemic" was then given a label that
\* is none of the three and still holds the ischemic conductances, or a
\* TenTusscherModel set to "endo" was given such a label and still holds the
\* endocardial ones.
C18_Witness ==
    /\ nops >= 2
    /\ \/ /\ last.op = "setCellType"
          /\ LastLabel \notin {"normal", "ischemic", "infarcted"}
          /\ ce = LuoRudy_setCellType(ce, "ischemic").m
       \/ /\ last.op = "setVariant"
          /\ LastLabel \notin {"epi", "endo", "mid"}
          /\ ce = TenTusscher_setVariant(ce, "endo").m

----------------------------------------------------------------------------
(* DTM *)

\* C19 as stated: saveToFile returns true when the file can be created, and a
\* following loadFromFile of that file into another DTM, whatever size it was
\* constructed with, returns true and gives it the width, the height, the
\* cell size and the elevation of every cell of the DTM that was saved.
C19_FileRoundTrip ==
    /\ (last.op = "saveToFile" /\ last.n = 1) => last.ret = "true"
    /\ (last.op = "loadFromFile" /\ dtmSaved["test_dtm.dat"].valid) =>
          /\ last.ret = "true"
          /\ DTM_getDimensions(dtm2) = DTM_getDimensions(dtmSaved["test_dtm.dat"].m)
          /\ DTM_getCellSize(dtm2) = DTM_getCellSize(dtmSaved["test_dtm.dat"].m)
          /\ dtm2.elevation_data_ = dtmSaved["test_dtm.dat"].m.elevation_data_

\* C20: a setElevation(x, y, e) at a coordinate inside the grid leaves e to be
\* returned by getElevation(x, y), leaves the elevation of every other cell as
\* it was, and leaves getDimensions at the width and height of construction.
C20_CellStore ==
    [][(last'.op = "setElevation" /\ InGrid(last'.x, last'.y)) =>
          /\ ~DTM_getElevation(dtm', last'.x, last'.y).rejected
          /\ DTM_getElevation(dtm', last'.x, last'.y).val = last'.n
          /\ \A x \in Cols(GridW), y \in Rows(GridH) :
                <<x, y>> # <<last'.x, last'.y>> =>
                    DTM_getElevation(dtm', x, y).val = DTM_getElevation(dtm, x, y).val
          /\ DTM_getDimensions(dtm') = <<GridW, GridH>>]_vars

\* C20 happens: an elevation was stored at a corner that is not on the
\* diagonal, over a grid that already held another elevation at the centre;
\* the corner returns the new one and the centre the old one.
C20_Witness ==
    /\ last.op = "setElevation" /\ last.x = GridW - 1 /\ last.y = 0
    /\ DTM_getElevation(dtm, GridW - 1, 0).val = last.n
    /\ DTM_getElevation(dtm, CentreX, CentreY).val \in ElevationInputs \ {last.n}
    /\ DTM_getElevation(dtm, 0, GridH - 1).val = 0

----------------------------------------------------------------------------
(* One step of FitzHughNagumo *)

\* the diffusion term of a cell: coeff times the 5-point Laplacian on the
\* interior cells, 0 on the outer ring
RingLaplacian(coeff, grid, x, y) ==
    IF Interior(x, y) THEN Mul(coeff, Laplacian(grid, x, y)) ELSE 0

\* u - u^3/3 - v + stimulus and (u + a - b v) / c at a cell of m
ReactionTermU(m, x, y) ==
    m.u_[y][x] - (Mul(Mul(m.u_[y][x], m.u_[y][x]), m.u_[y][x]) \div 3)
        - m.v_[y][x] + m.stimulus_[y][x]
ReactionTermV(m, x, y) ==
    Div(m.u_[y][x] + m.a_ - Mul(m.b_, m.v_[y][x]), m.c_)

\* C21 as stated: a step leaves u + dt (du L(u) + u - u^3/3 - v + stimulus)
\* and v + dt (dv L(v) + (u + a - b v)/c) at every cell, computed from the
\* state before the step, whatever du and dv are; the buffers are exchanged
\* and the time grows by dt.
C21_StepFormula ==
    [][(active = "FHN" /\ last'.op = "step") =>
          /\ \A x \in Cols(GridW), y \in Rows(GridH) :
                /\ fhn'.u_[y][x] = fhn.u_[y][x] + Mul(fhn.dt_,
                       RingLaplacian(fhn.du_, fhn.u_, x, y) + ReactionTermU(fhn, x, y))
                /\ fhn'.v_[y][x] = fhn.v_[y][x] + Mul(fhn.dt_,
                       RingLaplacian(fhn.dv_, fhn.v_, x, y) + ReactionTermV(fhn, x, y))
          /\ fhn'.u_new_ = fhn.u_ /\ fhn'.v_new_ = fhn.v_
          /\ fhn'.time_ = fhn.time_ + fhn.dt_]_vars

\* the diffusion term as step() applies it: only for a positive coefficient
GuardedLaplacian(coeff, grid, x, y) ==
    IF coeff > 0 THEN RingLaplacian(coeff, grid, x, y) ELSE 0

\* C21 amended: the diffusion term du L(u) (dv L(v)) is present when du > 0
\* (dv > 0) and absent when the coefficient is zero or negative; the rest is
\* as stated.
C21_StepFormulaPositiveCoefficients ==
    [][(active = "FHN" /\ last'.op = "step") =>
          /\ \A x \in Cols(GridW), y \in Rows(GridH) :
                /\ fhn'.u_[y][x] = fhn.u_[y][x] + Mul(fhn.dt_,
                       GuardedLaplacian(fhn.du_, fhn.u_, x, y) + ReactionTermU(fhn, x, y))
                /\ fhn'.v_[y][x] = fhn.v_[y][x] + Mul(fhn.dt_,
                       GuardedLaplacian(fhn.dv_, fhn.v_, x, y) + ReactionTermV(fhn, x, y))
          /\ fhn'.u_new_ = fhn.u_ /\ fhn'.v_new_ = fhn.v_
          /\ fhn'.time_ = fhn.time_ + fhn.dt_]_vars

\* C21 happens: a step was taken with a negative du from a field u (now in
\* u_new_) whose Laplacian at the centre cell is not zero; the centre cell
\* moved by the reaction term alone.
C21_Witness ==
    /\ active = "FHN" /\ last.op = "step" /\ fhn.du_ < 0
    /\ Laplacian(fhn.u_new_, CentreX, CentreY) # 0
    /\ fhn.u_[CentreY][CentreX] # fhn.u_new_[CentreY][CentreX]

----------------------------------------------------------------------------
(* applyDiffusion *)

\* the cells the two loops of applyDiffusion visit in a w x h grid
StencilCells(w, h) == (1 .. (w - 2)) \X (1 .. (h - 2))

\* the entries of grid the loops index
StencilReads(w, h) ==
    UNION {{c, <<c[1], c[2] - 1>>, <<c[1], c[2] + 1>>, <<c[1] - 1, c[2]>>, <<c[1] + 1, c[2]>>} :
           c \in StencilCells(w, h)}

\* the object applyDiffusion was called on, its grid and its coefficient
StencilObject == IF active = "FHN" THEN fhn ELSE ce
StencilGrid == IF active = "FHN" THEN fhn.u_ ELSE ce.V_
StencilCoeff == IF active = "FHN" THEN fhn.du_ ELSE ce.conductivity_

\* whether the mask entry of a cell reads true in the call recorded
ReadsAsScar(x, y) == active # "FHN" /\ At(ce.mi_region_, x, y, last.x = 1)

\* C22 as stated: applyDiffusion leaves coeff (N + S + E + W - 4 centre) in
\* result at every interior cell and does not write the outer ring; on a grid
\* narrower or lower than 3 it writes nothing; it indexes no entry outside the
\* grid.
C22_StencilOnInterior ==
    last.op = "applyDiffusion" =>
        /\ \A x \in Cols(StencilObject.width_), y \in Rows(StencilObject.height_) :
              last.val[y][x] =
                  IF <<x, y>> \in StencilCells(StencilObject.width_, StencilObject.height_)
                  THEN Mul(StencilCoeff, Laplacian(StencilGrid, x, y))
                  ELSE last.n
        /\ (StencilObject.width_ < 3 \/ StencilObject.height_ < 3) =>
              last.val = Grid(StencilObject.width_, StencilObject.height_, last.n)
        /\ StencilReads(StencilObject.width_, StencilObject.height_)
              \subseteq Cols(StencilObject.width_) \X Rows(StencilObject.height_)

\* C22 amended: as stated, except that CardiacElectrophysiology::applyDiffusion
\* writes 0 at an interior cell whose mask entry reads true.
C22_StencilOnUnmaskedInterior ==
    last.op = "applyDiffusion" =>
        /\ \A x \in Cols(StencilObject.width_), y \in Rows(StencilObject.height_) :
              last.val[y][x] =
                  IF <<x, y>> \in StencilCells(StencilObject.width_, StencilObject.height_)
                  THEN IF ReadsAsScar(x, y) THEN 0
                       ELSE Mul(StencilCoeff, Laplacian(StencilGrid, x, y))
                  ELSE last.n
        /\ (StencilObject.width_ < 3 \/ StencilObject.height_ < 3) =>
              last.val = Grid(StencilObject.width_, StencilObject.height_, last.n)
        /\ StencilReads(StencilObject.width_, StencilObject.height_)
              \subseteq Cols(StencilObject.width_) \X Rows(StencilObject.height_)

\* C22 happens: applyDiffusion of a LuoRudyModel ran on a 4 x 3 grid whose cell
\* (1, 1) is flagged, into a result holding 7 everywhere: the flagged cell
\* holds 0, the interior cell next to it the stencil value, the ring still 7.
C22_Witness ==
    /\ last.op = "applyDiffusion" /\ active = "LR" /\ last.n = Fx(7, 1)
    /\ ce.width_ = 4 /\ ce.height_ = 3 /\ Size(ce.mi_region_[1]) = 4
    /\ ce.mi_region_[1][1] /\ ~ce.mi_region_[1][2]
    /\ last.val[1][1] = 0
    /\ last.val[1][2] = Mul(ce.conductivity_, Laplacian(ce.V_, 2, 1)) /\ last.val[1][2] # 0
    /\ last.val[0][0] = Fx(7, 1) /\ last.val[2][3] = Fx(7, 1)

----------------------------------------------------------------------------
(* Zero diffusion coefficients *)

\* the model with 1 added to u and to v at cell (x, y)
Perturbed(m, x, y) ==
    [m EXCEPT !.u_ = Put(@, x, y, m.u_[y][x] + Fx(1, 1)),
              !.v_ = Put(@, x, y, m.v_[y][x] + Fx(1, 1))]

\* whether two models hold the same u and v at every cell but (x, y)
SameElsewhere(m1, m2, x, y) ==
    \A x2 \in Cols(GridW), y2 \in Rows(GridH) :
        <<x2, y2>> # <<x, y>> =>
            m1.u_[y2][x2] = m2.u_[y2][x2] /\ m1.v_[y2][x2] = m2.v_[y2][x2]

\* C23: a step taken with du = 0 leaves u + dt (u - u^3/3 - v + stimulus) at
\* every cell, one taken with dv = 0 leaves v + dt (u + a - b v)/c at every
\* cell, and with both zero a change of u and v at one cell before the step
\* changes no other cell after it.
C23_ZeroCoefficientIsNoOp ==
    [][(active = "FHN" /\ last'.op = "step") =>
          /\ fhn.du_ = 0 =>
                \A x \in Cols(GridW), y \in Rows(GridH) :
                    fhn'.u_[y][x] = fhn.u_[y][x] + Mul(fhn.dt_, ReactionTermU(fhn, x, y))
          /\ fhn.dv_ = 0 =>
                \A x \in Cols(GridW), y \in Rows(GridH) :
                    fhn'.v_[y][x] = fhn.v_[y][x] + Mul(fhn.dt_, ReactionTermV(fhn, x, y))
          /\ (fhn.du_ = 0 /\ fhn.dv_ = 0) =>
                \A x \in Cols(GridW), y \in Rows(GridH) :
                    SameElsewhere(FHN_step(Perturbed(fhn, x, y)), fhn', x, y)]_vars

\* C23 happens: a step was taken with du = dv = 0 from a field u (now in
\* u_new_) whose Laplacian at the centre cell is not zero, and the centre cell
\* moved.
C23_Witness ==
    /\ active = "FHN" /\ last.op = "step" /\ fhn.du_ = 0 /\ fhn.dv_ = 0
    /\ Laplacian(fhn.u_new_, CentreX, CentreY) # 0
    /\ fhn.u_[CentreY][CentreX] # fhn.u_new_[CentreY][CentreX]

----------------------------------------------------------------------------
(* Intracellular calcium *)

----------------------------------------------------------------------------
(* ModelValidator bookkeeping *)

\* C25: validateModel returns a map with entries and appends it to the stored
\* results when the name is registered and the predictions are non-empty with
\* as many rows as the dataset; otherwise it returns a map without entries and
\* appends nothing; the number of runs in the report is the number of
\* validateModel calls that returned a map with entries.
C25_ValidatorBookkeeping ==
    [][active = "MV" =>
          /\ last'.op = "validateModel" =>
                LET preds    == DataInputs[last'.x]
                    name     == DatasetNames[last'.y]
                    datasets == validator.validation_datasets_
                    accepted == /\ name \in DOMAIN datasets
                                /\ Len(preds) > 0
                                /\ Len(preds) = Len(datasets[name])
                IN  /\ accepted =>
                          /\ DOMAIN last'.val # {}
                          /\ validator'.validation_results_ =
                                 Append(validator.validation_results_, last'.val)
                    /\ ~accepted =>
                          /\ DOMAIN last'.val = {}
                          /\ validator'.validation_results_ = validator.validation_results_
          /\ (last'.op = "generateValidationReport" /\ last'.ret = "true") =>
                last'.val.runs = succeeded']_vars

----------------------------------------------------------------------------
(* Order of the cells within a step *)

\* C26: whatever the order in which the loop of step visits the cells, the
\* object after the step (every field and the time) is the one the step left:
\* for FitzHughNagumo, and for LuoRudyModel and TenTusscherModel with their
\* gates and calcium updated in place.
C26_OrderIndependent ==
    [][last'.op = "step" =>
          /\ active = "FHN" =>
                \A order \in VisitOrders(fhn.width_, fhn.height_) :
                    FHN_stepInOrder(fhn, order) = fhn'
          /\ active \in {"LR", "TT"} =>
                /\ \A order \in VisitOrders(ce.width_, ce.height_), junk \in BOOLEAN :
                      CE_stepInOrder(ce, order, junk) = CE_step(ce, junk)
                /\ \E junk \in BOOLEAN :
                      CE_stepInOrder(ce, Reversed(RowMajor(ce.width_, ce.height_)), junk) = ce']_vars

\* C26 happens: a LuoRudyModel took a step that moved the gate m_ of cell
\* (1, 0) in place, with the centre cell flagged as scar.
C26_Witness ==
    /\ active = "LR" /\ last.op = "step"
    /\ ce.m_[0][1] # 0
    /\ Size(ce.mi_region_) = GridH /\ Size(ce.mi_region_[CentreY]) = GridW
    /\ ce.mi_region_[CentreY][CentreX]

----------------------------------------------------------------------------
(* DTM::loadFromFile on files it did not write *)

\* whether the first n tokens of a file are numbers
NumbersAhead(file, n) ==
    Len(file.toks) >= n /\ \A i \in 1 .. n : file.toks[i].num

\* whether a width, a height, a cell size and width * height values can all
\* be parsed from the file
FullyParsed(file) ==
    /\ NumbersAhead(file, 3)
    /\ file.toks[1].v >= 0 /\ file.toks[2].v >= 0
    /\ NumbersAhead(file, 3 + (file.toks[1].v \div SCALE) * (file.toks[2].v \div SCALE))

\* C27: loadFromFile returns true only if a width, a height, a cell size and
\* width * height values were parsed from the file, and returns false when the
\* header is not three numbers or the values are fewer than announced.
C27_LoadFromFileChecksParsing ==
    last.op = "given.loadFromFile" =>
        LET file == GivenDTMFiles[last.n]
        IN  /\ last.ret = "true" => FullyParsed(file)
            /\ ~FullyParsed(file) => last.ret = "false"

----------------------------------------------------------------------------
(* The stimulus grid and the saved state *)

\* the steps a loaded model is run for
MaxContinuation == 2

Unstimulated(m) == [m EXCEPT !.stimulus_ = Grid(m.width_, m.height_, 0)]

\* whether two models hold the same u, v and time
SameState(m1, m2) == m1.u_ = m2.u_ /\ m1.v_ = m2.v_ /\ m1.time_ = m2.time_

\* C28: the file saveState writes is the one it would write with a zero
\* stimulus grid; loadState, returning true or false, leaves the stimulus grid
\* of the loading model as it was (all zero in a freshly constructed one); and
\* when a freshly constructed model that has loaded the file holds, after N >= 1
\* steps, the u, v and time the saving model holds after N steps, the stimulus
\* grid of the saving model was all zero.
C28_StimulusNotPersisted ==
    [][active = "FHN" =>
          /\ (last'.op = "saveState" /\ last'.ret = "true") =>
                files'["state.dat"] = FHN_saveState(Unstimulated(fhn), TRUE).file
          /\ last'.op = "loadState" => fhn'.stimulus_ = fhn.stimulus_
          /\ last'.op = "loadStateFresh" =>
                /\ fresh' = Unstimulated(fresh')
                /\ (last'.ret = "true" /\ savedFrom.valid) =>
                      \A N \in 1 .. MaxContinuation :
                          SameState(FHN_steps(fresh', N), FHN_steps(savedFrom.m, N)) =>
                              savedFrom.m = Unstimulated(savedFrom.m)]_vars

\* C28 happens: a model with a stimulus at the centre cell was saved, a
\* freshly constructed model loaded the file and holds the saved u, v and time
\* with a zero stimulus grid, and one step later the two differ at that cell.
C28_Witness ==
    /\ active = "FHN" /\ last.op = "loadStateFresh" /\ last.ret = "true" /\ savedFrom.valid
    /\ savedFrom.m.stimulus_[CentreY][CentreX] # 0
    /\ fresh = Unstimulated(fresh)
    /\ SameState(fresh, savedFrom.m)
    /\ FHN_step(fresh).u_[CentreY][CentreX] # FHN_step(savedFrom.m).u_[CentreY][CentreX]

----------------------------------------------------------------------------
(* The unused arguments d and duration *)

\* C29: two runs that make the same calls with the same arguments, except for
\* the d passed to setParameters and the duration passed to addStimulus, hold
\* the same u, v and time after every call.
C29_UnusedInputsDoNotInterfere == SameState(fhn, fresh)

----------------------------------------------------------------------------
(* The training history of WASMFitzHughNagumo *)

\* C30: after every call epochResults, trainingLoss, validationLoss and
\* classificationHistory each hold currentEpoch entries, and a call of
\* runTrainingEpoch made while training mode is off changes nothing.
C30_TrainingHistoryConsistent ==
    [][active = "WASM" =>
          /\ Len(sim'.epochResults) = sim'.currentEpoch
          /\ Len(sim'.trainingLoss) = sim'.currentEpoch
          /\ Len(sim'.validationLoss) = sim'.currentEpoch
          /\ Len(sim'.classificationHistory) = sim'.currentEpoch
          /\ (last'.op = "runTrainingEpoch" /\ ~sim.trainingMode) => sim' = sim]_vars

====
